---- MODULE Spec2Model ----
(***************************************************************************)
(* A model of RainDocument (rainlang, src/unnamed/part_001): the document  *)
(* orchestrator, the import and metadata resolver, the namespace engine,   *)
(* binding extraction, dependency resolution and word-set discovery.       *)
(*                                                                         *)
(* A text is a sequence of one-character strings, positions are 0-based    *)
(* offsets, inclusive at both ends, as in the source.  A JavaScript object *)
(* with string keys is a TLA+ function whose domain is a set of strings,   *)
(* so a namespace leaf is recognised as in the source by the presence of   *)
(* the key "Element".                                                      *)
(***************************************************************************)
EXTENDS Integers, Sequences, FiniteSets, TLC

VARIABLES doc, passes, orphans, calls, hist

vars == <<doc, passes, orphans, calls, hist>>

(***************************************************************************)
(* Characters and the patterns of languageTypes                            *)
(***************************************************************************)
WS == {" ", "\n"}

LowerCh == {"a","b","c","d","e","f","g","h","i","j","k","l","m",
            "n","o","p","q","r","s","t","u","v","w","x","y","z"}

DigitCh == {"0","1","2","3","4","5","6","7","8","9"}

HexCh == DigitCh \cup {"a","b","c","d","e","f"}

\* number of hex digits of a hash literal
HashDigits == 1

Min(a, b) == IF a < b THEN a ELSE b

Max(a, b) == IF a < b THEN b ELSE a

EmptyObj == [k \in {} |-> 0]

\* the object o without the key k (JavaScript: delete o[k])
Delete(o, k) == [x \in DOMAIN o \ {k} |-> o[x]]

\* the object o with key k set to v (JavaScript: o[k] = v)
Put(o, k, v) == [x \in DOMAIN o \cup {k} |-> IF x = k THEN v ELSE o[x]]

RECURSIVE Join(_)
Join(s) == IF s = <<>> THEN "" ELSE Head(s) \o Join(Tail(s))

\* String.prototype.slice(a, b) on a character sequence, 0-based, b exclusive
Slice(s, a, b) ==
    LET a0 == Max(0, Min(a, Len(s)))
        b0 == Max(0, Min(b, Len(s)))
    IN  IF b0 <= a0 THEN <<>> ELSE SubSeq(s, a0 + 1, b0)

\* the character at 0-based offset i
At(s, i) == s[i + 1]

IsBlank(s) == \A i \in 1..Len(s) : s[i] \in WS

IsWordPattern(s) ==
    /\ Len(s) >= 1
    /\ s[1] \in LowerCh
    /\ \A i \in 2..Len(s) : s[i] \in LowerCh \cup DigitCh \cup {"-"}

IsHexPattern(s) ==
    /\ Len(s) >= 3
    /\ s[1] = "0"
    /\ s[2] = "x"
    /\ \A i \in 3..Len(s) : s[i] \in HexCh

IsHashPattern(s) == IsHexPattern(s) /\ Len(s) = 2 + HashDigits

IsDigits(s) == Len(s) >= 1 /\ \A i \in 1..Len(s) : s[i] \in DigitCh

\* /^[1-9]\d*e\d+$/
IsSciPattern(s) ==
    \E k \in 2..(Len(s) - 1) :
        /\ s[k] = "e"
        /\ s[1] \in DigitCh \ {"0"}
        /\ \A i \in 1..(k - 1) : s[i] \in DigitCh
        /\ \A i \in (k + 1)..Len(s) : s[i] \in DigitCh

IsBinPattern(s) ==
    /\ Len(s) >= 3
    /\ s[1] = "0"
    /\ s[2] = "b"
    /\ \A i \in 3..Len(s) : s[i] \in {"0", "1"}

IsNumericPattern(s) ==
    IsHexPattern(s) \/ IsBinPattern(s) \/ IsDigits(s) \/ IsSciPattern(s)

(***************************************************************************)
(* The text helpers of parser/helpers                                      *)
(***************************************************************************)
\* a chunk is <<text, <<start, end>>>>
Chunk(s, a, b) == <<Slice(s, a, b + 1), <<a, b>>>>

\* the maximal runs of characters outside seps, from offset i on
RECURSIVE Runs(_, _, _, _)
Runs(s, seps, i, start) ==
    IF i >= Len(s)
    THEN IF start < i THEN << <<start, i - 1>> >> ELSE <<>>
    ELSE IF At(s, i) \in seps
         THEN (IF start < i THEN << <<start, i - 1>> >> ELSE <<>>)
              \o Runs(s, seps, i + 1, i + 1)
         ELSE Runs(s, seps, i + 1, start)

\* the runs of s as chunks, their positions moved by offset
RunChunks(s, runs, offset) ==
    [i \in 1..Len(runs) |->
        <<Slice(s, runs[i][1], runs[i][2] + 1),
          <<runs[i][1] + offset, runs[i][2] + offset>>>>]

\* exclusiveParse(str, pattern, offset, includeEmptyEnds): the pieces of str
\* between the matches of the pattern, each with its position
exclusiveParse(s, seps, offset, includeEmptyEnds) ==
    (IF includeEmptyEnds /\ (Len(s) = 0 \/ At(s, 0) \in seps)
     THEN << <<<<>>, <<offset, offset - 1>>>> >> ELSE <<>>)
    \o RunChunks(s, Runs(s, seps, 0, 0), offset)
    \o (IF includeEmptyEnds /\ Len(s) > 0 /\ At(s, Len(s) - 1) \in seps
        THEN << <<<<>>, <<Len(s) + offset, Len(s) + offset - 1>>>> >>
        ELSE <<>>)

\* fillIn(text, position): the text with the span replaced by blanks
fillIn(s, pos) ==
    [i \in 1..Len(s) |-> IF pos[1] + 1 <= i /\ i <= pos[2] + 1 THEN " " ELSE s[i]]

\* the least and the greatest element of a set of numbers
MinOf(S) == CHOOSE i \in S : \A k \in S : i <= k

MaxOf(S) == CHOOSE i \in S : \A k \in S : i >= k

\* the offset of the last character of the comment opened at offset i
CommentEnd(s, ends) == IF ends = {} THEN Len(s) - 1 ELSE MinOf(ends) + 1

\* the spans of the comments: from each "/*" to the first "*/" after it,
\* or to the end of the text
RECURSIVE CommentSpans(_, _)
RECURSIVE CommentAt(_, _, _)
CommentAt(s, i, e) == << <<i, e>> >> \o CommentSpans(s, e + 1)

CommentSpans(s, i) ==
    IF i + 1 >= Len(s) THEN <<>>
    ELSE IF At(s, i) = "/" /\ At(s, i + 1) = "*"
         THEN CommentAt(s, i,
                        CommentEnd(s, {j \in (i + 2)..(Len(s) - 2) :
                                          At(s, j) = "*" /\ At(s, j + 1) = "/"}))
         ELSE CommentSpans(s, i + 1)

SpanChunks(s, sp) == [i \in 1..Len(sp) |-> Chunk(s, sp[i][1], sp[i][2])]

\* inclusiveParse(document, /\/\*[^]*?(?:\*\/|$)/gd)
inclusiveParseComments(s) == SpanChunks(s, CommentSpans(s, 0))

EndsWithCommentClose(t) ==
    Len(t) >= 2 /\ t[Len(t) - 1] = "*" /\ t[Len(t)] = "/"

TrimSpan(s, lo, hi) ==
    [text |-> SubSeq(s, lo, hi), startDelCount |-> lo - 1, endDelCount |-> Len(s) - hi]

TrimTo(s, nonws) ==
    IF nonws = {}
    THEN [text |-> <<>>, startDelCount |-> Len(s), endDelCount |-> 0]
    ELSE TrimSpan(s, MinOf(nonws), MaxOf(nonws))

\* trackedTrim(str): the trimmed text and the number of characters removed
\* at each end
trackedTrim(s) == TrimTo(s, {i \in 1..Len(s) : s[i] \notin WS})

\* String.prototype.trim
Trim(s) == trackedTrim(s).text

FirstHit(hits) == IF hits = {} THEN -1 ELSE MinOf(hits) - 1

\* String.prototype.indexOf for one character, -1 when absent
IndexOfIn(s, cs) == FirstHit({i \in 1..Len(s) : s[i] \in cs})

\* whether the text has the word w as a whole word (/\bw\b/ for a word of
\* letters and dashes: the neighbours are not word characters)
WordCh == LowerCh \cup DigitCh \cup {"_"}

HasMarker(s, w) ==
    \E i \in 0..(Len(s) - Len(w)) :
        /\ Slice(s, i, i + Len(w)) = w
        /\ (i = 0 \/ At(s, i - 1) \notin WordCh)
        /\ (i + Len(w) = Len(s) \/ At(s, i + Len(w)) \notin WordCh)

\* hasDuplicate(a, b): the two lists share an element
hasDuplicate(a, b) == a \cap b # {}

\* TextDocument.positionAt(offset).line
LineAt(s, offset) ==
    LET o == Max(0, Min(offset, Len(s)))
    IN  Cardinality({i \in 1..o : s[i] = "\n"})

\* TextDocument.getText(Range.create(positionAt(a), positionAt(b)))
GetTextRange(s, a, b) == Slice(s, a, b)

(***************************************************************************)
(* Problems                                                                *)
(***************************************************************************)
Problem(m, pos, c) == [msg |-> m, position |-> pos, code |-> c]

\* a chunk that is not there (JavaScript: undefined)
Undef == <<>>

Codes(ps) == [i \in 1..Len(ps) |-> ps[i].code]

HasCode(ps, c) == \E i \in 1..Len(ps) : ps[i].code = c

HasMsg(ps, m) == \E i \in 1..Len(ps) : ps[i].msg = m

CountMsg(ps, m) == Cardinality({i \in 1..Len(ps) : ps[i].msg = m})

CountCode(ps, c) == Cardinality({i \in 1..Len(ps) : ps[i].code = c})

(***************************************************************************)
(* processImportConfigs: the reconfiguration directives of an import       *)
(***************************************************************************)
StartsWithQuote(t) == Len(t) >= 1 /\ t[1] = "'"

\* _reconfigs.find(v => v[0][0] === _key[0] && v[1][0] === chunks[i][0])
HasReconfig(reconfigs, key, nxt) ==
    \E k \in 1..Len(reconfigs) :
        /\ reconfigs[k][1][1] = key[1]
        /\ reconfigs[k][2] # Undef
        /\ reconfigs[k][2][1] = nxt[1]

DupStatement(reconfigs, key, nxt) ==
    IF HasReconfig(reconfigs, key, nxt)
    THEN << Problem("duplicate statement", <<key[2][1], nxt[2][2]>>,
                    "DuplicateImportStatement") >>
    ELSE <<>>

\* the problems of the directive that starts at chunk key, followed by nxt
ConfigProblems(reconfigs, key, nxt) ==
    IF key[1] = <<".">>
    THEN IF nxt # Undef
         THEN IF nxt[1] = <<"!">>
              THEN DupStatement(reconfigs, key, nxt)
              ELSE << Problem("unexpected token", nxt[2], "UnexpectedToken") >>
         ELSE << Problem("expected elision syntax", key[2],
                         "ExpectedElisionOrRebinding") >>
    ELSE IF IsWordPattern(key[1])
    THEN IF nxt # Undef
         THEN IF IsNumericPattern(nxt[1]) \/ nxt[1] = <<"!">>
              THEN DupStatement(reconfigs, key, nxt)
              ELSE << Problem("unexpected token", nxt[2], "UnexpectedToken") >>
         ELSE << Problem("expected rebinding or elision", key[2],
                         "ExpectedElisionOrRebinding") >>
    ELSE IF StartsWithQuote(key[1])
    THEN IF IsWordPattern(Tail(key[1]))
         THEN IF nxt # Undef
              THEN IF IsWordPattern(nxt[1])
                   THEN DupStatement(reconfigs, key, nxt)
                   ELSE << Problem("invalid word pattern", nxt[2],
                                   "InvalidWordPattern") >>
              ELSE << Problem("expected name", key[2], "ExpectedName") >>
         ELSE << Problem("invalid word pattern", key[2], "InvalidWordPattern") >>
    ELSE << Problem("unexpected token", key[2], "UnexpectedToken") >>

\* the chunk at index i, undefined past the end
ChunkAt(chunks, i) == IF i <= Len(chunks) THEN chunks[i] ELSE Undef

RECURSIVE ConfigsFrom(_, _, _, _)
RECURSIVE ConfigStep(_, _, _, _, _, _)
ConfigStep(chunks, i, reconfigs, problems, key, nxt) ==
    ConfigsFrom(chunks, i + 2,
                Append(reconfigs, <<key, nxt>>),
                problems \o ConfigProblems(reconfigs, key, nxt))

ConfigsFrom(chunks, i, reconfigs, problems) ==
    IF i > Len(chunks)
    THEN [reconfigs |-> reconfigs, reconfigProblems |-> problems]
    ELSE ConfigStep(chunks, i, reconfigs, problems, chunks[i], ChunkAt(chunks, i + 1))

processImportConfigs(chunks) == ConfigsFrom(chunks, 1, <<>>, <<>>)

(***************************************************************************)
(* processImport, up to its first await: the name, the hash and the        *)
(* directives of an import statement, and whether a fetch was issued       *)
(***************************************************************************)
ToLowerCh(c) ==
    CASE c = "A" -> "a" [] c = "B" -> "b" [] c = "C" -> "c"
      [] c = "D" -> "d" [] c = "E" -> "e" [] c = "F" -> "f"
      [] OTHER -> c

ToLower(s) == [i \in 1..Len(s) |-> ToLowerCh(s[i])]

\* the hash chunk h of an import statement whose name is not "."
NamedHash(h, rest, atPos) ==
    IF IsHexPattern(h[1])
    THEN IF ~IsHashPattern(h[1])
         THEN [hash |-> "", hashPosition |-> atPos, fetch |-> FALSE,
               problems |-> << Problem("invalid hash, must be 32 bytes",
                                       h[2], "InvalidHash") >>,
               rest |-> rest]
         ELSE [hash |-> Join(ToLower(h[1])), hashPosition |-> h[2],
               fetch |-> TRUE, problems |-> <<>>, rest |-> rest]
    ELSE [hash |-> "", hashPosition |-> atPos, fetch |-> FALSE,
          problems |-> << Problem("expected hash", h[2], "ExpectedHash") >>,
          rest |-> rest]

\* the hash of an import statement whose name is not "."
NamedHashPart(rest, atPos) ==
    IF rest # <<>>
    THEN NamedHash(rest[1], Tail(rest), atPos)
    ELSE [hash |-> "", hashPosition |-> atPos, fetch |-> FALSE,
          problems |-> << Problem("expected import hash", atPos, "ExpectedHash") >>,
          rest |-> rest]

WordPatternProblems(chunk) ==
    IF ~IsWordPattern(chunk[1])
    THEN << Problem("invalid word pattern", chunk[2], "InvalidWordPattern") >>
    ELSE <<>>

\* the head of an import statement that starts with a name
NamedHead(first, rest, atPos, hp) ==
    IF Join(first[1]) # "."
    THEN [name |-> Join(first[1]), hash |-> hp.hash, namePosition |-> first[2],
          hashPosition |-> hp.hashPosition,
          problems |-> WordPatternProblems(first) \o hp.problems,
          rest |-> hp.rest, fetch |-> hp.fetch]
    ELSE [name |-> ".", hash |-> "", namePosition |-> first[2],
          hashPosition |-> atPos, problems |-> WordPatternProblems(first),
          rest |-> rest, fetch |-> FALSE]

\* the name, the hash and the problems of an import statement, and the
\* chunks left for its directives
HeadOf(chunks, atPos) ==
    IF chunks = <<>>
    THEN [name |-> ".", hash |-> "", namePosition |-> atPos, hashPosition |-> atPos,
          problems |-> << Problem("expected a valid name or hash", atPos,
                                  "InvalidImport") >>,
          rest |-> <<>>, fetch |-> FALSE]
    ELSE IF ~IsHexPattern(chunks[1][1])
    THEN NamedHead(chunks[1], Tail(chunks), atPos, NamedHashPart(Tail(chunks), atPos))
    ELSE IF IsHashPattern(chunks[1][1])
    THEN [name |-> ".", hash |-> Join(ToLower(chunks[1][1])),
          namePosition |-> chunks[1][2], hashPosition |-> chunks[1][2],
          problems |-> <<>>, rest |-> Tail(chunks), fetch |-> TRUE]
    ELSE [name |-> ".", hash |-> "", namePosition |-> chunks[1][2],
          hashPosition |-> atPos,
          problems |-> << Problem("invalid hash, must be 32 bytes", chunks[1][2],
                                  "ExpectedHash") >>,
          rest |-> Tail(chunks), fetch |-> FALSE]

ImportOf(h, pos, cfg) ==
    [imp |-> [name |-> h.name, hash |-> h.hash,
              namePosition |-> h.namePosition, hashPosition |-> h.hashPosition,
              problems |-> h.problems, position |-> pos,
              reconfigs |-> cfg.reconfigs,
              reconfigProblems |-> cfg.reconfigProblems,
              sequence |-> EmptyObj],
     fetch |-> h.fetch]

ImportWith(h, pos) == ImportOf(h, pos, processImportConfigs(h.rest))

\* processImport before "await _metaPromise": the import and the fetch flag
ImportHead(imp) ==
    ImportWith(HeadOf(exclusiveParse(imp[1], WS, imp[2][1], FALSE),
                      <<imp[2][1] - 1, imp[2][1] - 1>>),
               <<imp[2][1] - 1, imp[2][2]>>)

(***************************************************************************)
(* Namespaces.  An interior node keeps its keys in insertion order, as     *)
(* Object.keys returns them: [keys |-> <<...>>, map |-> [key |-> node]].   *)
(* A leaf is [Hash, ImportIndex, Element], a word-set leaf has bytecode    *)
(* too.  The element of a word-set leaf is [list |-> <<[word |-> w]>>].    *)
(***************************************************************************)
NsEmpty == [keys |-> <<>>, map |-> EmptyObj]

\* "Element" in node
IsLeaf(x) == "Element" \in DOMAIN x

Has(ns, k) == k \in DOMAIN ns.map

Get(ns, k) == ns.map[k]

NsPut(ns, k, v) ==
    [keys |-> IF Has(ns, k) THEN ns.keys ELSE Append(ns.keys, k),
     map  |-> Put(ns.map, k, v)]

NsDel(ns, k) ==
    [keys |-> SelectSeq(ns.keys, LAMBDA x : x # k),
     map  |-> Delete(ns.map, k)]

KeySet(ns) == DOMAIN ns.map

\* AST.Namespace.isNode, isWord, isBinding, isContextAlias
isNode(x) == IsLeaf(x)

isWord(x) == IsLeaf(x) /\ "word" \in DOMAIN x.Element

isBinding(x) == IsLeaf(x) /\ "content" \in DOMAIN x.Element

isContextAlias(x) == IsLeaf(x) /\ "column" \in DOMAIN x.Element

Leaf(hash, index, element) ==
    [Hash |-> hash, ImportIndex |-> index, Element |-> element]

RECURSIVE copyNamespace(_, _, _)
RECURSIVE CopyFrom(_, _, _, _, _)
\* the copy of one entry v of a namespace
CopyOf(v, index, hash) ==
    IF IsLeaf(v)
    THEN Leaf(IF v.Hash # "" THEN v.Hash ELSE hash, index, v.Element)
    ELSE copyNamespace(v, index, hash)

CopyFrom(ns, index, hash, i, acc) ==
    IF i > Len(ns.keys) THEN acc
    ELSE CopyFrom(ns, index, hash, i + 1,
                  NsPut(acc, ns.keys[i], CopyOf(Get(ns, ns.keys[i]), index, hash)))

copyNamespace(ns, index, hash) == CopyFrom(ns, index, hash, 1, NsEmpty)

RECURSIVE Check(_, _)
\* a verdict that does not compare the hashes of two bindings or two aliases
CheckKeyMutant(n, c, dupWords) ==
    IF ~IsLeaf(n) /\ ~IsLeaf(c)
    THEN Check(n, c)
    ELSE IF isNode(n) /\ isNode(c)
    THEN IF ~isWord(n) \/ ~isWord(c)
         THEN IF \/ (isBinding(n) /\ isBinding(c))
                 \/ (isContextAlias(n) /\ isContextAlias(c))
              THEN "ok"
              ELSE "duplicate identifier"
         ELSE IF ~dupWords
              THEN "namespace already contains a set of words"
              ELSE "ok"
    ELSE "cannot import into an occupied namespace"

\* the verdict on one name present in both subtrees
CheckKey(n, c, dupWords) ==
    IF ~IsLeaf(n) /\ ~IsLeaf(c)
    THEN Check(n, c)
    ELSE IF isNode(n) /\ isNode(c)
    THEN IF ~isWord(n) \/ ~isWord(c)
         THEN IF \/ (isBinding(n) /\ isBinding(c))
                 \/ (isContextAlias(n) /\ isContextAlias(c))
              THEN IF n.Hash # c.Hash THEN "duplicate identifier" ELSE "ok"
              ELSE "duplicate identifier"
         ELSE IF ~dupWords
              THEN "namespace already contains a set of words"
              ELSE "ok"
    ELSE "cannot import into an occupied namespace"

RECURSIVE CheckFrom(_, _, _, _)
RECURSIVE CheckNext(_, _, _, _, _)
CheckNext(nns, cns, i, dupWords, r) ==
    IF r # "ok" THEN r ELSE CheckFrom(nns, cns, i + 1, dupWords)

CheckFrom(nns, cns, i, dupWords) ==
    IF i > Len(nns.keys) THEN "ok"
    ELSE CheckNext(nns, cns, i, dupWords,
                   IF Has(cns, nns.keys[i])
                   THEN CheckKey(Get(nns, nns.keys[i]), Get(cns, nns.keys[i]), dupWords)
                   ELSE "ok")

\* a check that does not compare the hashes of the two word sets
CheckMutant(nns, cns) ==
    IF IsLeaf(cns) THEN "cannot import into an occupied namespace"
    ELSE IF cns.keys = <<>> THEN "ok"
    ELSE CheckFrom(nns, cns, 1, Has(cns, "Words") /\ Has(nns, "Words"))

\* mergeNamespace._check(nns, cns)
Check(nns, cns) ==
    IF IsLeaf(cns) THEN "cannot import into an occupied namespace"
    ELSE IF cns.keys = <<>> THEN "ok"
    ELSE IF /\ Has(cns, "Words")
            /\ Has(nns, "Words")
            /\ Get(nns, "Words").Hash # Get(cns, "Words").Hash
    THEN "namespace already contains a set of words"
    ELSE CheckFrom(nns, cns, 1, Has(cns, "Words") /\ Has(nns, "Words"))

\* mergeNamespace._merge(nns, cns): the merged existing subtree
RECURSIVE Merge(_, _)
RECURSIVE MergeFrom(_, _, _, _)
\* acc with the entry k of nns merged in
MergeKey(nns, cns, k, acc) ==
    IF ~Has(cns, k)
    THEN NsPut(acc, k, Get(nns, k))
    ELSE IF ~IsLeaf(Get(nns, k))
         THEN NsPut(acc, k, Merge(Get(nns, k), Get(acc, k)))
         ELSE acc

MergeFrom(nns, cns, i, acc) ==
    IF i > Len(nns.keys) THEN acc
    ELSE MergeFrom(nns, cns, i + 1, MergeKey(nns, cns, nns.keys[i], acc))

Merge(nns, cns) == MergeFrom(nns, cns, 1, cns)

CheckCode(r) ==
    IF r = "duplicate identifier" THEN "DuplicateIdentifier"
    ELSE IF r = "namespace already contains a set of words" THEN "MultipleWords"
    ELSE "InvalidImport"

\* the document's namespace with the node named by the import created
WithTarget(namespace, imp) ==
    IF imp.name # "." /\ ~Has(namespace, imp.name)
    THEN NsPut(namespace, imp.name, NsEmpty)
    ELSE namespace

\* the node the import merges into
TargetOf(ns1, imp) == IF imp.name = "." THEN ns1 ELSE Get(ns1, imp.name)

\* a verdict that merges the contribution whatever the check says
MergeVerdictMutant(ns1, imp, ns, isOk) ==
    [namespace |-> IF imp.name = "."
                   THEN Merge(ns, ns1)
                   ELSE NsPut(ns1, imp.name, Merge(ns, Get(ns1, imp.name))),
     problems  |-> IF isOk # "ok"
                   THEN << Problem(isOk, imp.hashPosition, CheckCode(isOk)) >>
                   ELSE <<>>,
     result    |-> isOk]

\* the failure path and the merge of mergeNamespace
MergeVerdict(ns1, imp, ns, isOk) ==
    IF isOk # "ok"
    THEN [namespace |-> IF /\ imp.name # "."
                           /\ ~IsLeaf(Get(ns1, imp.name))
                           /\ Get(ns1, imp.name).keys = <<>>
                        THEN NsDel(ns1, imp.name)
                        ELSE ns1,
          problems  |-> << Problem(isOk, imp.hashPosition, CheckCode(isOk)) >>,
          result    |-> isOk]
    ELSE [namespace |-> IF imp.name = "."
                        THEN Merge(ns, ns1)
                        ELSE NsPut(ns1, imp.name, Merge(ns, Get(ns1, imp.name))),
          problems  |-> <<>>,
          result    |-> "ok"]

MergeInto(ns1, imp, ns) == MergeVerdict(ns1, imp, ns, Check(ns, TargetOf(ns1, imp)))

\* mergeNamespace(imp, ns) on the document's namespace
mergeNamespace(namespace, imp, ns) == MergeInto(WithTarget(namespace, imp), imp, ns)

(***************************************************************************)
(* The namespace contribution of an import and its directives              *)
(***************************************************************************)
RECURSIVE PutAll(_, _, _)
\* ns with the leaves of the list added in order, keyed by key(e)
PutAll(ns, leaves, i) ==
    IF i > Len(leaves) THEN ns
    ELSE PutAll(NsPut(ns, leaves[i][1], leaves[i][2]), leaves, i + 1)

SeqToSet(q) == {q[i] : i \in 1..Len(q)}

WordsLeaf(imp, i) ==
    [Hash |-> imp.hash, ImportIndex |-> i,
     Element |-> [list |-> imp.sequence.dispair.authoringMeta],
     bytecode |-> imp.sequence.dispair.bytecode]

WordLeaves(imp, i, am) ==
    [k \in 1..Len(am) |-> <<am[k].word, Leaf(imp.hash, i, am[k])>>]

\* the word-set part of an import's contribution
DispairNs(imp, i) ==
    IF "dispair" \in DOMAIN imp.sequence
    THEN PutAll(NsPut(NsEmpty, "Words", WordsLeaf(imp, i)),
                WordLeaves(imp, i, imp.sequence.dispair.authoringMeta), 1)
    ELSE NsEmpty

\* whether the context aliases of the import collide with the words
CtxDup(imp, ns1) ==
    /\ "ctxmeta" \in DOMAIN imp.sequence
    /\ hasDuplicate({imp.sequence.ctxmeta[k].name :
                        k \in 1..Len(imp.sequence.ctxmeta)}, KeySet(ns1))

CtxLeaves(imp, i, ctx) ==
    [k \in 1..Len(ctx) |-> <<ctx[k].name, Leaf(imp.hash, i, ctx[k])>>]

NsLeaves(cp) == [k \in 1..Len(cp.keys) |-> <<cp.keys[k], Get(cp, cp.keys[k])>>]

\* the contribution with the nested document's namespace dns added
BuildDot(imp, i, ns2, ctxDup, dns) ==
    IF "dotrain" \in DOMAIN imp.sequence /\ ~ctxDup
    THEN IF Has(ns2, "Words") /\ Has(dns, "Words")
         THEN [ns |-> ns2, hasDupKeys |-> FALSE, hasDupWords |-> TRUE]
         ELSE IF hasDuplicate(KeySet(dns), KeySet(ns2))
         THEN [ns |-> ns2, hasDupKeys |-> TRUE, hasDupWords |-> FALSE]
         ELSE [ns |-> PutAll(ns2, NsLeaves(copyNamespace(dns, i, imp.hash)), 1),
               hasDupKeys |-> FALSE, hasDupWords |-> FALSE]
    ELSE [ns |-> ns2, hasDupKeys |-> ctxDup, hasDupWords |-> FALSE]

\* the contribution with the context aliases added
BuildCtx(imp, i, ns1, ctxDup) ==
    BuildDot(imp, i,
             IF "ctxmeta" \in DOMAIN imp.sequence /\ ~ctxDup
             THEN PutAll(ns1, CtxLeaves(imp, i, imp.sequence.ctxmeta), 1)
             ELSE ns1,
             ctxDup,
             IF "dotrain" \in DOMAIN imp.sequence
             THEN imp.sequence.dotrain.namespace ELSE NsEmpty)

BuildWords(imp, i, ns1) == BuildCtx(imp, i, ns1, CtxDup(imp, ns1))

\* the contribution built from the sequence of an import, with the two
\* flags _hasDupKeys and _hasDupWords
BuildNs(imp, i) == BuildWords(imp, i, DispairNs(imp, i))

RECURSIVE DelWords(_, _, _)
DelWords(ns, list, i) ==
    IF i > Len(list) THEN ns ELSE DelWords(NsDel(ns, list[i].word), list, i + 1)

\* a rebinding that leaves the elision of the binding in place
ReboundMutant(b, value) == Put(b, "constant", value)

\* a rebinding that clears the elision and sets no constant
ClearedMutant(b, value) == Delete(Delete(b, "elided"), "exp")

\* the rebound binding: constant set, elided and exp removed
Rebound(b, value) == Delete(Delete(Put(b, "constant", value), "elided"), "exp")

\* a rename that leaves the entry under the old name as well
MoveEntryMutant(ns, key, new) == NsPut(ns, new, Get(ns, key))

\* the entry at key moved to the name new
MoveEntry(ns, key, new) == NsDel(NsPut(ns, new, Get(ns, key)), key)

\* an elision of the word set that leaves its words behind
ElideWordsMutant(ns) == NsDel(ns, "Words")

\* the word set and every word of it removed
ElideWords(ns) == NsDel(DelWords(ns, Get(ns, "Words").Element.list, 1), "Words")

\* one directive <<key chunk, value chunk>> applied to the contribution
ApplyReconfig(ns, s) ==
    LET k0   == s[1][1]
        v0   == s[2][1]
        kpos == s[1][2]
        vpos == s[2][2]
        span == <<kpos[1], vpos[2]>>
        same == [ns |-> ns, problems |-> <<>>]
        err(p) == [ns |-> ns, problems |-> << p >>]
        key  == IF StartsWithQuote(k0) THEN Join(Tail(k0)) ELSE Join(k0)
    IN  IF s[1] = Undef \/ s[2] = Undef THEN same
        ELSE IF v0 = <<"!">>
        THEN IF k0 = <<".">>
             THEN IF Has(ns, "Words")
                  THEN [ns |-> ElideWords(ns), problems |-> <<>>]
                  ELSE err(Problem("cannot elide undefined words", span,
                                   "UndefinedDISpair"))
             ELSE IF Has(ns, Join(k0))
                  THEN IF isWord(Get(ns, Join(k0)))
                       THEN err(Problem("cannot elide single word", span,
                                        "SingleWordModify"))
                       ELSE [ns |-> NsDel(ns, Join(k0)), problems |-> <<>>]
                  ELSE err(Problem("undefined identifier", kpos,
                                   "UndefinedIdentifier"))
        ELSE IF Has(ns, key)
        THEN IF isWord(Get(ns, key))
             THEN err(Problem("cannot rename or rebind single word", span,
                              "SingleWordModify"))
             ELSE IF StartsWithQuote(k0)
                  THEN IF Has(ns, Join(v0))
                       THEN err(Problem("cannot rename, name already exists", vpos,
                                        "DuplicateIdentifier"))
                       ELSE [ns |-> MoveEntry(ns, key, Join(v0)), problems |-> <<>>]
                  ELSE IF ~isBinding(Get(ns, key))
                       THEN err(Problem("unexpected rebinding", span,
                                        "UnexpectedRebinding"))
                       ELSE [ns |-> NsPut(ns, key,
                                          [Get(ns, key) EXCEPT !.Element =
                                              Rebound(@, Join(v0))]),
                             problems |-> <<>>]
        ELSE err(Problem("undefined identifier", kpos, "UndefinedIdentifier"))

\* the directives applied in order; log keeps each step for inspection
RECURSIVE ApplyReconfigs(_, _, _, _, _)
RECURSIVE ReconfigStep(_, _, _, _, _, _)
ReconfigStep(ns, reconfigs, j, problems, log, r) ==
    ApplyReconfigs(r.ns, reconfigs, j + 1, problems \o r.problems,
                   Append(log, [directive |-> reconfigs[j],
                                before |-> ns, after |-> r.ns,
                                problems |-> r.problems]))

ApplyReconfigs(ns, reconfigs, j, problems, log) ==
    IF j > Len(reconfigs)
    THEN [ns |-> ns, problems |-> problems, log |-> log]
    ELSE ReconfigStep(ns, reconfigs, j, problems, log,
                      ApplyReconfig(ns, reconfigs[j]))

\* isDeepImport(imp)
isDeepImport(imp) ==
    /\ "dotrain" \in DOMAIN imp.sequence
    /\ HasCode(imp.sequence.dotrain.problems, "DeepImport")

\* the record the merge loop keeps of one import
Entry(st, imp, i, kind, after, ps, b, rc, check) ==
    [index |-> i, kind |-> kind, name |-> imp.name, hash |-> imp.hash,
     hashPosition |-> imp.hashPosition,
     before |-> st.namespace, after |-> after, problems |-> ps,
     built |-> b.ns,
     hasDup |-> b.hasDupKeys \/ b.hasDupWords,
     reconfigs |-> rc.log,
     contribution |-> rc.ns,
     check |-> check]

Out(st, after, ps, entry) ==
    [namespace |-> after, problems |-> st.problems \o ps,
     log |-> Append(st.log, entry)]

\* a turn that leaves the namespace as it is
Passed(st, imp, i, kind, ps) ==
    Out(st, st.namespace, ps,
        Entry(st, imp, i, kind, st.namespace, ps,
              [ns |-> NsEmpty, hasDupKeys |-> FALSE, hasDupWords |-> FALSE],
              [ns |-> NsEmpty, log |-> <<>>], "none"))

\* the problems of a contribution that has duplicates
DupProblems(imp, b) ==
    IF b.hasDupKeys
    THEN << Problem("import contains items with duplicate identifiers",
                    imp.hashPosition, "DuplicateIdentifier") >>
    ELSE << Problem("import contains multiple sets of words in its namespace",
                    imp.hashPosition, "MultipleWords") >>

MergeChecked(st, imp, i, b, rc, m) ==
    Out(st, m.namespace, rc.problems \o m.problems,
        Entry(st, imp, i, "merge", m.namespace, rc.problems \o m.problems,
              b, rc, m.result))

\* a merge of the contribution as built, the directives left aside
MergeReconfiguredMutant(st, imp, i, b, rc) ==
    MergeChecked(st, imp, i, b, rc, mergeNamespace(st.namespace, imp, b.ns))

\* the contribution that the directives leave, checked and merged
MergeReconfigured(st, imp, i, b, rc) ==
    MergeChecked(st, imp, i, b, rc, mergeNamespace(st.namespace, imp, rc.ns))

MergeBuilt(st, imp, i, b) ==
    MergeReconfigured(st, imp, i, b,
                      IF b.hasDupKeys \/ b.hasDupWords
                      THEN [ns |-> b.ns, problems |-> DupProblems(imp, b),
                            log |-> <<>>]
                      ELSE ApplyReconfigs(b.ns, imp.reconfigs, 1, <<>>, <<>>))

\* one turn of the merge loop for this.imports[i]; i is the 0-based index.
\* st is [namespace, problems, log]
MergeImport(st, imp, i) ==
    IF imp.problems # <<>> THEN Passed(st, imp, i, "skipped", <<>>)
    ELSE IF Has(st.namespace, imp.name) /\ IsLeaf(Get(st.namespace, imp.name))
    THEN Passed(st, imp, i, "taken",
                << Problem("cannot import, name already taken",
                           imp.namePosition, "InvalidImport") >>)
    ELSE IF isDeepImport(imp)
    THEN Passed(st, imp, i, "deep",
                << Problem("import too deep", imp.hashPosition, "DeepImport") >>)
    ELSE MergeBuilt(st, imp, i, BuildNs(imp, i))

RECURSIVE MergeLoop(_, _, _)
MergeLoop(st, imports, i) ==
    IF i > Len(imports) THEN st
    ELSE MergeLoop(MergeImport(st, imports[i], i - 1), imports, i + 1)

(***************************************************************************)
(* Binding extraction                                                      *)
(***************************************************************************)
\* DEFAULT_ELISION of languageTypes
DEFAULT_ELISION == "elided binding"

RECURSIVE StripZeros(_)
StripZeros(s) == IF Len(s) > 1 /\ s[1] = "0" THEN StripZeros(Tail(s)) ELSE s

DigitVal(c) ==
    CASE c = "0" -> 0 [] c = "1" -> 1 [] c = "2" -> 2 [] c = "3" -> 3
      [] c = "4" -> 4 [] c = "5" -> 5 [] c = "6" -> 6 [] c = "7" -> 7
      [] c = "8" -> 8 [] c = "9" -> 9

DigitStr(n) ==
    CASE n = 0 -> "0" [] n = 1 -> "1" [] n = 2 -> "2" [] n = 3 -> "3"
      [] n = 4 -> "4" [] n = 5 -> "5" [] n = 6 -> "6" [] n = 7 -> "7"
      [] n = 8 -> "8" [] n = 9 -> "9"

RECURSIVE NatOf(_, _, _)
NatOf(s, base, acc) ==
    IF s = <<>> THEN acc ELSE NatOf(Tail(s), base, acc * base + DigitVal(s[1]))

RECURSIVE NatStr(_)
NatStr(n) == IF n < 10 THEN DigitStr(n) ELSE NatStr(n \div 10) \o DigitStr(n % 10)

RECURSIVE Zeros(_)
Zeros(n) == IF n <= 0 THEN "" ELSE "0" \o Zeros(n - 1)

\* the numeral of the item t in exponent notation, e the offset of its "e"
SciNumeral(t, e) ==
    Join(Slice(t, 0, e)) \o Zeros(NatOf(Slice(t, e + 1, Len(t)), 10, 0))

\* the numeral of one item, or ""
Numeral(t) ==
    IF ~IsNumericPattern(t) THEN ""
    ELSE IF IsSciPattern(t) THEN SciNumeral(t, IndexOfIn(t, {"e"}))
    ELSE IF IsHexPattern(t) THEN Join(t)
    ELSE IF IsBinPattern(t) THEN NatStr(NatOf(Slice(t, 2, Len(t)), 2, 0))
    ELSE Join(StripZeros(t))

ConstantOf(items) == IF Len(items) # 1 THEN "" ELSE Numeral(items[1][1])

\* isConstant(text): the numeral of a text that holds one numeric item, or ""
isConstant(text) == ConstantOf(exclusiveParse(text, WS, 0, FALSE))

FirstIs(t, c) == Len(t) >= 1 /\ t[1] = c

\* isElided(text)
isElided(text) == FirstIs(Trim(text), "!")

\* /^[a-z][a-z0-9-]*$/
IsBindingName(s) ==
    /\ Len(s) >= 1
    /\ s[1] \in LowerCh
    /\ \A i \in 2..Len(s) : s[i] \in LowerCh \cup DigitCh \cup {"-"}

\* the text after the name, trimmed unless that leaves nothing
ContentOf(after, trimmed) == IF trimmed.text = <<>> THEN after ELSE trimmed.text

ContentPos(pos, index, trimmed) ==
    IF trimmed.text = <<>>
    THEN <<pos[1] + index + 1, pos[2]>>
    ELSE <<pos[1] + index + 1 + trimmed.startDelCount, pos[2] - trimmed.endDelCount>>

BindingProblems(invalid, dup, noCm, namePos) ==
    (IF invalid
     THEN << Problem("invalid binding name", namePos, "InvalidBindingIdentifier") >>
     ELSE <<>>)
    \o (IF dup
        THEN << Problem("duplicate identifier", namePos, "DuplicateIdentifier") >>
        ELSE <<>>)
    \o (IF noCm = <<>> \/ IsBlank(noCm)
        THEN << Problem("empty binding are not allowed", namePos,
                        "InvalidEmptyBinding") >>
        ELSE <<>>)

ElisionMsg(msg) == IF msg # <<>> THEN Join(msg) ELSE DEFAULT_ELISION

\* the message of an elided binding: what follows the "!"
ElisionText(t) == Trim(Slice(t, 1, Len(t)))

WithConstant(base, val) == IF val # "" THEN Put(base, "constant", val) ELSE base

\* the binding: elided, constant, or one that needs an expression
BindingOf(base, noCm) ==
    IF isElided(noCm)
    THEN Put(base, "elided", ElisionMsg(ElisionText(Trim(noCm))))
    ELSE WithConstant(base, isConstant(noCm))

\* a statement that is declared whatever its name
DeclareMutant(st, b, problems, keep) ==
    [namespace |-> NsPut(st.namespace, b.name, Leaf("", -1, b)),
     bindings  |-> Append(st.bindings, b),
     problems  |-> st.problems \o problems]

Declare(st, b, problems, keep) ==
    IF keep
    THEN [namespace |-> NsPut(st.namespace, b.name, Leaf("", -1, b)),
          bindings  |-> Append(st.bindings, b),
          problems  |-> st.problems \o problems]
    ELSE [namespace |-> st.namespace,
          bindings  |-> st.bindings,
          problems  |-> st.problems \o problems]

Bind(st, nameSeq, namePos, content, cPos, pos, noCm) ==
    Declare(st,
            BindingOf([name |-> Join(nameSeq), namePosition |-> namePos,
                       content |-> content, contentPosition |-> cPos,
                       position |-> pos, problems |-> <<>>, dependencies |-> <<>>],
                      noCm),
            BindingProblems(~IsBindingName(nameSeq), Has(st.namespace, Join(nameSeq)),
                            noCm, namePos),
            IsBindingName(nameSeq) /\ ~Has(st.namespace, Join(nameSeq)))

\* a binding with content: after is the text after the name in the document
\* without comments, cafter the same span of the current text
BindContent(st, v, index, after, cafter) ==
    Bind(st, Slice(v[1], 0, index), <<v[2][1], v[2][1] + index - 1>>,
         ContentOf(cafter, trackedTrim(cafter)),
         ContentPos(v[2], index, trackedTrim(cafter)),
         v[2], ContentOf(after, trackedTrim(after)))

ExtractAt(st, v, curText, index) ==
    IF index = -1
    THEN Bind(st, v[1], v[2], <<>>, <<v[2][2] + 1, v[2][2]>>, v[2], <<>>)
    ELSE BindContent(st, v, index,
                     Slice(v[1], index + 1, Len(v[1])),
                     Slice(GetTextRange(curText, v[2][1], v[2][2] + 1),
                           index + 1, v[2][2] + 1 - v[2][1]))

\* one binding statement v read against the namespace so far and the
\* current text of the document; st is [namespace, bindings, problems]
ExtractBinding(st, v, curText) == ExtractAt(st, v, curText, IndexOfIn(v[1], WS))

RECURSIVE ExtractBindings(_, _, _, _)
ExtractBindings(st, chunks, i, curText) ==
    IF i > Len(chunks) THEN st
    ELSE ExtractBindings(ExtractBinding(st, chunks[i], curText), chunks, i + 1,
                         curText)

RECURSIVE FillAll(_, _, _)
\* the document with the span of every statement, and the mark before it,
\* blanked
FillAll(document, chunks, i) ==
    IF i > Len(chunks) THEN document
    ELSE FillAll(fillIn(document, <<chunks[i][2][1] - 1, chunks[i][2][2]>>),
                 chunks, i + 1)

(***************************************************************************)
(* processDependencies                                                     *)
(***************************************************************************)
IdentCh == LowerCh \cup DigitCh \cup {"-"}

\* the offset after the longest run of [0-9a-z-] from offset i
RECURSIVE IdentEnd(_, _)
IdentEnd(s, i) == IF i < Len(s) /\ At(s, i) \in IdentCh THEN IdentEnd(s, i + 1) ELSE i

\* the offset after (\.[a-z][0-9a-z-]*)* from offset i
RECURSIVE PathEnd(_, _)
PathEnd(s, i) ==
    IF i + 1 < Len(s) /\ At(s, i) = "." /\ At(s, i + 1) \in LowerCh
    THEN PathEnd(s, IdentEnd(s, i + 2))
    ELSE i

\* the offset of the first letter of a match whose quote is at offset i,
\* or -1
MatchStart(s, i) ==
    IF i + 2 < Len(s) /\ At(s, i + 1) = "." /\ At(s, i + 2) \in LowerCh
    THEN i + 2
    ELSE IF i + 1 < Len(s) /\ At(s, i + 1) \in LowerCh
    THEN i + 1
    ELSE -1

\* the matches of /'\.?[a-z][0-9a-z-]*(\.[a-z][0-9a-z-]*)*/g from offset i,
\* each without its leading quote
RECURSIVE DepMatches(_, _)
RECURSIVE MatchTo(_, _, _)
RECURSIVE MatchFrom(_, _, _)
MatchTo(s, i, e) == << Join(Slice(s, i + 1, e)) >> \o DepMatches(s, e)

MatchFrom(s, i, first) ==
    IF first = -1 THEN DepMatches(s, i + 1)
    ELSE MatchTo(s, i, PathEnd(s, IdentEnd(s, first + 1)))

DepMatches(s, i) ==
    IF i >= Len(s) THEN <<>>
    ELSE IF At(s, i) # "'" THEN DepMatches(s, i + 1)
    ELSE MatchFrom(s, i, MatchStart(s, i))

NeedsExpression(b) == "constant" \notin DOMAIN b /\ "elided" \notin DOMAIN b

\* the nodes from which node n is reachable by one or more edges
RECURSIVE Ancestors(_, _)
RECURSIVE Grown(_, _, _)
Grown(edges, found, more) ==
    IF more = found THEN found ELSE Ancestors(edges, more)

Ancestors(edges, found) ==
    Grown(edges, found,
          found \cup {edges[k][1] : k \in {j \in 1..Len(edges) : edges[j][2] \in found}})

\* n lies on a cycle: some edge into an ancestor of n starts at n
OnCycle(edges, n) ==
    \E k \in 1..Len(edges) :
        edges[k][1] = n /\ edges[k][2] \in Ancestors(edges, {n})

Sorted(ns, edges, cyc) ==
    IF \E k \in 1..Len(edges) : edges[k][1] \notin ns \/ edges[k][2] \notin ns
    THEN [kind |-> "unknown", node |-> ""]
    ELSE IF cyc # {}
    THEN [kind |-> "cyclic", node |-> CHOOSE n \in cyc : TRUE]
    ELSE [kind |-> "ok", node |-> ""]

\* toposort.array(nodes, edges): "ok", an unknown node in the edges, or a
\* cyclic dependency with the node it names (a node on a cycle)
toposort(nodes, edges) ==
    Sorted(SeqToSet(nodes), edges, {n \in SeqToSet(nodes) : OnCycle(edges, n)})

\* the guard of the resolution loop
DepLoopGuard(nodes, edges) == nodes = <<>> \/ edges = <<>>

\* the bindings with a circular-dependency problem added to those named
MarkCircular(bindings, names) ==
    [i \in 1..Len(bindings) |->
        IF bindings[i].name \in names /\ NeedsExpression(bindings[i])
        THEN [bindings[i] EXCEPT !.problems =
                 Append(@, Problem("circular dependency",
                                   bindings[i].namePosition, "CircularDependency"))]
        ELSE bindings[i]]

\* the resolution loop; st is [bindings, problems]
RECURSIVE DepLoop(_, _, _)
RECURSIVE Unwind(_, _, _, _)
RECURSIVE DepTurn(_, _, _, _)
\* the loop after the nodes of the cycle, del, and what hangs on them are
\* marked and removed
Unwind(nodes, edges, st, del) ==
    DepLoop(SelectSeq(nodes, LAMBDA n : n \notin del),
            SelectSeq(edges, LAMBDA e : e[2] \notin del \/ e[1] \notin del),
            [st EXCEPT !.bindings = MarkCircular(@, del)])

DepTurn(nodes, edges, st, r) ==
    IF r.kind = "ok" THEN st
    ELSE IF r.kind = "cyclic"
    THEN Unwind(nodes, edges, st, Ancestors(edges, {r.node}))
    ELSE [st EXCEPT !.problems =
             Append(@, Problem("cannot resolve dependencies", <<0, -1>>,
                               "UnresolvableDependencies"))]

DepLoop(nodes, edges, st) ==
    IF ~DepLoopGuard(nodes, edges) THEN st
    ELSE DepTurn(nodes, edges, st, toposort(nodes, edges))

EdgesFrom(b) == [k \in 1..Len(b.dependencies) |-> <<b.name, b.dependencies[k]>>]

RECURSIVE EdgesOf(_, _)
EdgesOf(bindings, i) ==
    IF i > Len(bindings) THEN <<>>
    ELSE EdgesFrom(bindings[i]) \o EdgesOf(bindings, i + 1)

\* a scan that takes the references of every binding, constant or elided too
WithDepsMutant(bindings) ==
    [i \in 1..Len(bindings) |->
        [bindings[i] EXCEPT !.dependencies =
            @ \o DepMatches(bindings[i].content, 0)]]

\* the bindings with the dependencies found in their content
WithDeps(bindings) ==
    [i \in 1..Len(bindings) |->
        IF NeedsExpression(bindings[i])
        THEN [bindings[i] EXCEPT !.dependencies =
                 @ \o DepMatches(bindings[i].content, 0)]
        ELSE bindings[i]]

Names(live) == [i \in 1..Len(live) |-> live[i].name]

\* the edges pushed in this call: those of the matches just found
Found(live) ==
    [i \in 1..Len(live) |->
        [name |-> live[i].name, dependencies |-> DepMatches(live[i].content, 0)]]

Resolve(withDeps, live, problems) ==
    DepLoop(Names(live), EdgesOf(Found(live), 1),
            [bindings |-> withDeps, problems |-> problems])

Dependent(withDeps, problems) ==
    Resolve(withDeps, SelectSeq(withDeps, NeedsExpression), problems)

\* processDependencies on the document's bindings and problems
processDependencies(bindings, problems) == Dependent(WithDeps(bindings), problems)

(***************************************************************************)
(* getWords: the working word set                                          *)
(***************************************************************************)
\* the interior children of a node, in key order
InteriorKeys(ns) == SelectSeq(ns.keys, LAMBDA k : ~IsLeaf(Get(ns, k)))

\* getWords._validate(ns, hash): <<count, hash>>
RECURSIVE Validate(_, _)
RECURSIVE ValidateFrom(_, _, _, _, _)
RECURSIVE Counted(_, _, _, _, _)
Counted(ns, kids, i, c1, h) ==
    IF c1 > 1 THEN <<c1, h>> ELSE ValidateFrom(ns, kids, i + 1, c1, h)

RECURSIVE ValidateKid(_, _, _, _, _)
ValidateKid(ns, kids, i, c, t) == Counted(ns, kids, i, c + t[1], t[2])

ValidateFrom(ns, kids, i, c, hash) ==
    IF i > Len(kids) THEN <<c, hash>>
    ELSE ValidateKid(ns, kids, i, c, Validate(Get(ns, kids[i]), hash))

\* a count that takes every further word set for a different one
ValidateMutant(ns, hash) ==
    IF Has(ns, "Words") /\ hash # ""
    THEN <<1, hash>>
    ELSE IF Has(ns, "Words") /\ hash = ""
    THEN ValidateFrom(ns, InteriorKeys(ns), 1, 1, Get(ns, "Words").Hash)
    ELSE ValidateFrom(ns, InteriorKeys(ns), 1, 0, hash)

Validate(ns, hash) ==
    IF Has(ns, "Words") /\ hash # ""
       /\ Get(ns, "Words").Hash # hash   \* hashes are kept in lower case
    THEN <<1, hash>>
    ELSE IF Has(ns, "Words") /\ hash = ""
    THEN ValidateFrom(ns, InteriorKeys(ns), 1, 1, Get(ns, "Words").Hash)
    ELSE ValidateFrom(ns, InteriorKeys(ns), 1, 0, hash)

\* getWords._get(ns, path): the word-set leaf found first and the path
\* returned, "" when none
RECURSIVE GetWordsPath(_, _)
RECURSIVE GetWordsFrom(_, _, _, _)
RECURSIVE GetWordsKid(_, _, _, _, _)
GetWordsKid(ns, kids, i, path, r) ==
    IF r.path # ""
    THEN [path |-> path \o "." \o r.path, found |-> TRUE, leaf |-> r.leaf]
    ELSE IF r.found
    THEN [GetWordsFrom(ns, kids, i + 1, path) EXCEPT !.found = TRUE, !.leaf = r.leaf]
    ELSE GetWordsFrom(ns, kids, i + 1, path)

GetWordsFrom(ns, kids, i, path) ==
    IF i > Len(kids) THEN [path |-> "", found |-> FALSE, leaf |-> EmptyObj]
    ELSE GetWordsKid(ns, kids, i, path, GetWordsPath(Get(ns, kids[i]), kids[i]))

GetWordsPath(ns, path) ==
    IF Has(ns, "Words")
    THEN [path |-> path, found |-> TRUE, leaf |-> Get(ns, "Words")]
    ELSE GetWordsFrom(ns, InteriorKeys(ns), 1, path)

WordsOf(d, count, g) ==
    IF count > 1
    THEN [d EXCEPT !.problems =
             Append(@, [msg |-> "words must be singleton",
                        position |-> <<0, -1>>, code |-> "SingletonWords",
                        count |-> count])]
    ELSE IF count = 0
    THEN [d EXCEPT !.problems =
             Append(@, Problem("cannot find any set of words", <<0, -1>>,
                               "UndefinedDISpair"))]
    ELSE [d EXCEPT !.authoringMeta = IF g.found THEN g.leaf.Element.list ELSE @,
                   !.bytecode = IF ~g.found THEN @
                                ELSE IF "bytecode" \in DOMAIN g.leaf
                                THEN g.leaf.bytecode ELSE "undefined",
                   !.authoringMetaPath = IF g.path = "" THEN "." ELSE g.path]

\* getWords(): the problems it adds and the working word set it selects
getWords(d) ==
    WordsOf(d, Validate(d.namespace, "")[1], GetWordsPath(d.namespace, ""))

(***************************************************************************)
(* The expression parser (Rainlang), an external collaborator: it returns  *)
(* an expression and problems positioned relative to the content.  Here it *)
(* reports the first "?" of a content as a token it does not accept.       *)
(***************************************************************************)
Rainlang(content, authoringMeta, namespace, ignoreAuthoringMeta) ==
    [ast |-> "ast",
     problems |-> IF IndexOfIn(content, {"?"}) > -1
                  THEN << Problem("unexpected token",
                                  <<IndexOfIn(content, {"?"}),
                                    IndexOfIn(content, {"?"})>>,
                                  "UnexpectedToken") >>
                  ELSE <<>>]

\* the depth-0 stage after getWords: an expression for every binding that
\* is neither constant nor elided
ParseExpressions(d) ==
    [d EXCEPT !.bindings =
        [i \in 1..Len(@) |->
            IF NeedsExpression(@[i])
            THEN LET r == Rainlang(@[i].content, d.authoringMeta, d.namespace,
                                   d.ignoreUAM)
                     b == @[i]
                 IN  [Put(b, "exp", r.ast) EXCEPT !.problems =
                        b.problems \o
                        [k \in 1..Len(r.problems) |->
                            Problem(r.problems[k].msg,
                                    <<r.problems[k].position[1] + b.contentPosition[1],
                                      r.problems[k].position[2] + b.contentPosition[1]>>,
                                    r.problems[k].code)]]
            ELSE @[i]]]

MarkNextLine == <<"i","g","n","o","r","e","-","n","e","x","t","-","l","i","n","e">>

\* the problems left after those on the line below each ignore-next-line
\* comment are dropped
IgnoreNextLine(problems, comments, curText) ==
    LET lines == {LineAt(curText, comments[k].position[2] + 1) + 1 :
                    k \in {j \in 1..Len(comments) :
                            HasMarker(comments[j].comment, MarkNextLine)}}
    IN  SelectSeq(problems, LAMBDA e : LineAt(curText, e.position[1]) \notin lines)

(***************************************************************************)
(* The metadata store, an external collaborator.  Its content is fixed:    *)
(* what update, getMeta, Meta.decode, isConsumableMeta and the authoring   *)
(* meta look-ups give for each hash.                                       *)
(***************************************************************************)
\* a deployer bytecode map: its words, whether the store can settle its
\* authoring meta, and its bytecode
Dispair(words, am, bytecode) ==
    [kind |-> "dispair", words |-> words, am |-> am, bytecode |-> bytecode]

CtxCol(alias, col) == [alias |-> alias, columnIndex |-> col, cells |-> <<>>]

CtxMeta(cols) == [kind |-> "ctxmeta", columns |-> cols]

Dotrain(text) == [kind |-> "dotrain", text |-> text]

Record(maps) == [state |-> "ok", maps |-> maps]

\* the hash literal whose digits are all c
Hash(c) == <<"0", "x">> \o [i \in 1..HashDigits |-> c]

\* metaStore.getMeta(hash) after the update, decoded
MetaOf(hash) ==
    CASE hash = Join(Hash("a")) -> Record(<< Dispair(<<"p", "q">>, TRUE, "0x60a") >>)
      [] hash = Join(Hash("b")) -> Record(<< Dispair(<<"r">>, TRUE, "0x60b") >>)
      [] hash = Join(Hash("c")) ->
            Record(<< CtxMeta(<< CtxCol("c", 0), CtxCol("d", 1) >>) >>)
      [] hash = Join(Hash("d")) -> Record(<< Dotrain(<<"@", " ">> \o Hash("a")) >>)
      [] hash = Join(Hash("e")) ->
            Record(<< Dotrain(<<"#","m"," ","1"," ","#","n"," ","!">>) >>)
      [] hash = Join(Hash("f")) -> Record(<< Dispair(<<"p">>, TRUE, "0x60f"),
                                             CtxMeta(<< CtxCol("c", 0) >>) >>)
      [] hash = Join(Hash("1")) -> Record(<< Dotrain(<<"@", " ">> \o Hash("1")) >>)
      [] hash = Join(Hash("3")) -> [state |-> "corrupt", maps |-> <<>>]
      [] hash = Join(Hash("4")) -> Record(<< Dispair(<<"p">>, FALSE, "0x604") >>)
      [] hash = Join(Hash("5")) ->
            Record(<< Dispair(<<"p">>, FALSE, "0x605"),
                      CtxMeta(<< CtxCol("c", 0), CtxCol("c", 1) >>) >>)
      [] hash = Join(Hash("6")) -> Record(<< Dispair(<<"c">>, TRUE, "0x606"),
                                             CtxMeta(<< CtxCol("c", 0) >>) >>)
      [] hash = Join(Hash("8")) ->
            Record(<< Dotrain(<<"@", " ", "x", " ">> \o Hash("e")) >>)
      [] hash = Join(Hash("0")) -> Record(<< Dotrain(<<"#","m"," ","2"," ","#","k"," ","x">>) >>)
      [] hash = Join(Hash("7")) -> Record(<< Dotrain(<<"@", " ">> \o Hash("9")) >>)
      [] OTHER -> [state |-> "absent", maps |-> <<>>]

\* metaStore.update(hash) rejects
UpdateRejects(hash) == hash = Join(Hash("2"))

\* the row of a context alias that names a whole column (NaN)
NaNRow == -1

\* the deepest import depth at which import statements are processed
DepthLimit == 32

\* a depth test that lets a document at the limit import
CanImportMutant(importDepth) == importDepth <= DepthLimit

CanImport(importDepth) == importDepth < DepthLimit

(***************************************************************************)
(* toContextAlias                                                          *)
(***************************************************************************)
AliasNamed(aliases, name) == \E k \in 1..Len(aliases) : aliases[k].name = name

\* whether an alias of this name is there with another column or row
Clash(aliases, name, column, row) ==
    \E k \in 1..Len(aliases) :
        /\ aliases[k].name = name
        /\ (aliases[k].column # column \/ aliases[k].row # row)

\* st with the alias added unless one of its name is there
WithAlias(st, name, column, row) ==
    IF AliasNamed(st.aliases, name) THEN st
    ELSE [st EXCEPT !.aliases =
             Append(@, [name |-> name, column |-> column, row |-> row,
                        description |-> ""])]

\* the cells of one column; st is [ok, aliases]
RECURSIVE CellsFrom(_, _, _, _)
CellsFrom(st, col, cells, i) ==
    IF i > Len(cells) \/ ~st.ok THEN st
    ELSE IF Clash(st.aliases, cells[i].alias, col, cells[i].cellIndex)
    THEN [st EXCEPT !.ok = FALSE]
    ELSE CellsFrom(WithAlias(st, cells[i].alias, col, cells[i].cellIndex),
                   col, cells, i + 1)

RECURSIVE ColumnsFrom(_, _, _)
ColumnsFrom(st, cols, i) ==
    IF i > Len(cols) \/ ~st.ok THEN st
    ELSE IF Clash(st.aliases, cols[i].alias, cols[i].columnIndex, NaNRow)
    THEN [st EXCEPT !.ok = FALSE]
    ELSE ColumnsFrom(CellsFrom(WithAlias(st, cols[i].alias, cols[i].columnIndex,
                                         NaNRow),
                               cols[i].columnIndex, cols[i].cells, 1),
                     cols, i + 1)

\* toContextAlias(contractMeta): ok is FALSE when it throws
toContextAlias(cols) == ColumnsFrom([ok |-> TRUE, aliases |-> <<>>], cols, 1)

(***************************************************************************)
(* The document and the part of _parse before the imports                  *)
(***************************************************************************)
\* the fields of a RainDocument after construction; runtimeError "" is unset
NewDoc(text, importDepth) ==
    [text |-> text, importDepth |-> importDepth, runtimeError |-> "",
     bindings |-> <<>>, namespace |-> NsEmpty, imports |-> <<>>,
     authoringMeta |-> <<>>, authoringMetaPath |-> "", bytecode |-> "",
     comments |-> <<>>, problems |-> <<>>,
     ignoreAM |-> FALSE, ignoreUAM |-> FALSE]

\* the reset at the head of _parse and in the branch of parse for blank text
Reset(d) == NewDoc(d.text, d.importDepth)

RECURSIVE FillSpans(_, _, _)
FillSpans(document, chunks, i) ==
    IF i > Len(chunks) THEN document
    ELSE FillSpans(fillIn(document, chunks[i][2]), chunks, i + 1)

CutAt(v, index) ==
    IF index > -1
    THEN <<Slice(v[1], 0, index), <<v[2][1], v[2][1] + index - 1>>>>
    ELSE v

\* an import statement cut at the first binding mark
CutAtBinding(v) == CutAt(v, IndexOfIn(v[1], {"#"}))

MarkAM == <<"i","g","n","o","r","e","-","a","u","t","h","o","r","i","n","g","-","m","e","t","a">>

MarkUAM == <<"i","g","n","o","r","e","-","u","n","d","e","f","i","n","e","d","-","a","u","t","h","o","r","i","n","g","-","m","e","t","a">>

UnclosedProblems(open) ==
    [k \in 1..Len(open) |->
        Problem("unexpected end of comment", open[k][2], "UnexpectedEndOfComment")]

\* the document after the reset, with its comments and flags
Commented(d, cms) ==
    [Reset(d) EXCEPT
        !.problems = UnclosedProblems(
                        SelectSeq(cms, LAMBDA v : ~EndsWithCommentClose(v[1]))),
        !.comments = [k \in 1..Len(cms) |->
                         [comment |-> cms[k][1], position |-> cms[k][2]]],
        !.ignoreAM = \E k \in 1..Len(cms) : HasMarker(cms[k][1], MarkAM),
        !.ignoreUAM = \E k \in 1..Len(cms) :
                         HasMarker(cms[k][1], MarkUAM) \/ HasMarker(cms[k][1], MarkAM)]

\* the import statements among the pieces between the "@" marks
Statements(all) == [k \in 1..(Len(all) - 1) |-> CutAtBinding(all[k + 1])]

BeginStatements(d1, doc1, stms) ==
    [d |-> d1, document |-> FillAll(doc1, stms, 1), statements |-> stms]

BeginImports(d1, doc1) ==
    BeginStatements(d1, doc1, Statements(exclusiveParse(doc1, {"@"}, 0, TRUE)))

BeginComments(d, cms) == BeginImports(Commented(d, cms), FillSpans(d.text, cms, 1))

\* _parse up to the import stage: the document after the reset with its
\* comments and flags, the blanked text and the import statements
Begin(d) == BeginComments(d, inclusiveParseComments(d.text))

(***************************************************************************)
(* processImport after the fetch, and processMeta                          *)
(***************************************************************************)
AuthoringOf(words) == [k \in 1..Len(words) |-> [word |-> words[k]]]

OfKind(maps, kind) == SelectSeq(maps, LAMBDA x : x.kind = kind)

UAMProblem(imp) ==
    Problem("cannot find any settlement for authoring meta of specified dispair",
            imp.hashPosition, "UndefinedAuthoringMeta")

\* a dispair that holds the words although their authoring meta did not settle
DispairOfMutant(map, ignoreAM) ==
    [bytecode |-> map.bytecode,
     authoringMeta |-> IF ignoreAM THEN <<>> ELSE AuthoringOf(map.words)]

\* the dispair that the deployer branch of processMeta stores
DispairOf(map, ignoreAM) ==
    [bytecode |-> map.bytecode,
     authoringMeta |-> IF ignoreAM \/ ~map.am THEN <<>> ELSE AuthoringOf(map.words)]

\* what one RainDocument leaves behind, for inspection: its depth, the
\* number of its import statements, of its imports, of its "import too
\* deep" problems after the import stage and of the fetches it issued
Summary(importDepth, statements, imports, deep, updates) ==
    [importDepth |-> importDepth, statements |-> statements, imports |-> imports,
     deep |-> deep, updates |-> updates]

\* the document that the nested-document branch of processMeta makes for a
\* hash, taken from inner: the parsed documents of the next import depth,
\* a list of [hash, result]
NestedOf(inner, hash) ==
    inner[CHOOSE k \in 1..Len(inner) : inner[k].hash = hash].result

Outcome(imp, uam, failed, orphan, async, docs) ==
    [imp |-> imp, uam |-> uam, failed |-> failed, orphan |-> orphan,
     async |-> async, docs |-> docs]

\* the import of a hash that gives nothing to consume
Bad(imp, msg, code) ==
    Outcome([imp EXCEPT !.problems = Append(@, Problem(msg, imp.hashPosition, code))],
            <<>>, FALSE, FALSE, FALSE, {})

\* the sequence that the branches of processMeta fill
SequenceOf(dis, ctx, dot, ignoreAM, aliases, nested) ==
    (IF dis # <<>> THEN [dispair |-> DispairOf(dis[1], ignoreAM)] ELSE EmptyObj)
    @@ (IF ctx # <<>> THEN [ctxmeta |-> aliases.aliases] ELSE EmptyObj)
    @@ (IF dot # <<>> THEN [dotrain |-> nested.d] ELSE EmptyObj)

Sequenced(imp, dis, ctx, dot, ignoreAM, aliases, nested, uam) ==
    IF ~aliases.ok
    THEN Outcome([imp EXCEPT !.sequence = EmptyObj,
                             !.problems = Append(@, Problem("corrupt meta",
                                                            imp.hashPosition,
                                                            "CorruptMeta"))],
                 uam, TRUE, dis # <<>> /\ ~ignoreAM, FALSE, {})
    ELSE Outcome([imp EXCEPT
                    !.sequence = SequenceOf(dis, ctx, dot, ignoreAM, aliases, nested),
                    !.problems =
                        IF nested.d.problems # <<>>
                        THEN Append(@, Problem("imported rain document contains top level errors",
                                               imp.hashPosition, "InvalidRainDocument"))
                        ELSE @],
                 uam, FALSE, FALSE, (dis # <<>> /\ ~ignoreAM) \/ dot # <<>>,
                 nested.docs)

\* the maps of the record by kind
Consumed(imp, dis, ctx, dot, ignoreAM, ignoreUAM, inner) ==
    Sequenced(imp, dis, ctx, dot, ignoreAM,
              IF ctx # <<>> THEN toContextAlias(ctx[1].columns)
              ELSE [ok |-> TRUE, aliases |-> <<>>],
              IF dot # <<>> THEN NestedOf(inner, imp.hash)
              ELSE [d |-> [problems |-> <<>>], docs |-> {}],
              IF dis # <<>> /\ ~ignoreAM /\ ~dis[1].am /\ ~ignoreUAM
              THEN << UAMProblem(imp) >> ELSE <<>>)

Decoded(imp, m, ignoreAM, ignoreUAM, inner) ==
    IF m.state = "absent"
    THEN Bad(imp, "cannot find any settlement for hash", "UndefinedMeta")
    ELSE IF m.state = "corrupt" THEN Bad(imp, "corrupt meta", "CorruptMeta")
    ELSE IF m.state = "inconsumable"
    THEN Bad(imp, "inconsumable import", "InconsumableMeta")
    ELSE Consumed(imp, OfKind(m.maps, "dispair"), OfKind(m.maps, "ctxmeta"),
                  OfKind(m.maps, "dotrain"), ignoreAM, ignoreUAM, inner)

\* the import whose fetch resolved, classified.  imp: the import returned;
\* uam: what the deployer branch pushes to this.problems; failed: the
\* classification threw; orphan: the deployer branch is still running when
\* it threw; async: some branch awaits; docs: the nested documents made
Classify(imp, importDepth, ignoreAM, ignoreUAM, inner) ==
    Decoded(imp, MetaOf(imp.hash), ignoreAM, ignoreUAM, inner)

\* a push that hands the problems of the nested document up as well
PushedMutant(imp) ==
    imp.problems \o imp.reconfigProblems
        \o (IF "dotrain" \in DOMAIN imp.sequence THEN imp.sequence.dotrain.problems
            ELSE <<>>)

\* what a finished processImport pushes to this.problems
Pushed(imp) == imp.problems \o imp.reconfigProblems

RuntimeErrorProblem == Problem("Runtime Error: ", <<0, -1>>, "RuntimeError")

\* the catch of parse()
Catch(d) ==
    [d EXCEPT !.runtimeError = "rejected",
              !.problems = Append(@, RuntimeErrorProblem)]

(***************************************************************************)
(* _parse after the import stage                                           *)
(***************************************************************************)
DupImport(imp) == Problem("duplicate import", imp.hashPosition, "DuplicateImport")

\* st with one awaited import pushed
PushImport(st, imp, dup) ==
    [imports  |-> Append(st.imports,
                         IF dup THEN [imp EXCEPT !.problems = Append(@, DupImport(imp))]
                         ELSE imp),
     problems |-> IF dup THEN Append(st.problems, DupImport(imp)) ELSE st.problems]

\* (await Promise.all(...)).forEach: st is [imports, problems]
RECURSIVE PushImports(_, _, _)
PushImports(st, results, i) ==
    IF i > Len(results) THEN st
    ELSE PushImports(
           PushImport(st, results[i],
                      /\ results[i].hash # ""
                      /\ \E k \in 1..Len(st.imports) :
                            st.imports[k].hash = results[i].hash),
           results, i + 1)

TopLevelProblems(late) ==
    [k \in 1..Len(late) |->
        Problem("imports can only be stated at top level", late[k].position,
                "InvalidImport")]

\* the imports stated after the first binding
NotTopLevel(imports, bindings) ==
    IF bindings = <<>> THEN <<>>
    ELSE TopLevelProblems(
           SelectSeq(imports, LAMBDA v : v.position[1] >= bindings[1].namePosition[1]))

TokenProblems(rest) ==
    [k \in 1..Len(rest) |-> Problem("unexpected token", rest[k][2], "UnexpectedToken")]

Residual(document) == TokenProblems(exclusiveParse(document, WS, 0, FALSE))

\* the leaves of the document's own bindings are the bindings of the list
RECURSIVE OwnLeaves(_, _, _)
OwnLeaf(ns, b) ==
    IF /\ Has(ns, b.name)
       /\ IsLeaf(Get(ns, b.name))
       /\ Get(ns, b.name).ImportIndex = -1
    THEN NsPut(ns, b.name, Leaf("", -1, b))
    ELSE ns

OwnLeaves(ns, bindings, i) ==
    IF i > Len(bindings) THEN ns
    ELSE OwnLeaves(OwnLeaf(ns, bindings[i]), bindings, i + 1)

\* the ignore-next-line filter at the end of _parse
FinishEnd(d2, log) ==
    [d   |-> [d2 EXCEPT !.problems = IgnoreNextLine(@, d2.comments, d2.text),
                        !.namespace = OwnLeaves(@, d2.bindings, 1)],
     log |-> log,
     raw |-> d2.problems]

\* a stage that selects the words and parses the expressions at every depth
FinishWordsMutant(d1, log) == FinishEnd(ParseExpressions(getWords(d1)), log)

\* the depth-0 stage: the working word set and the expressions
FinishWords(d1, log) ==
    FinishEnd(IF d1.importDepth = 0 THEN ParseExpressions(getWords(d1)) ELSE d1, log)

FinishDeps(d, imports, log, namespace, dep) ==
    FinishWords([d EXCEPT !.imports = imports, !.namespace = namespace,
                          !.bindings = dep.bindings, !.problems = dep.problems],
                log)

\* the top-level import check, the residual tokens and processDependencies
FinishBound(d, imports, log, rest, b) ==
    FinishDeps(d, imports, log, b.namespace,
               processDependencies(
                 b.bindings,
                 b.problems \o NotTopLevel(imports, b.bindings) \o Residual(rest)))

\* the binding statements
FinishBindings(d, document, imports, m, chunks) ==
    FinishBound(d, imports, m.log, FillAll(document, chunks, 1),
                ExtractBindings([namespace |-> m.namespace, bindings |-> d.bindings,
                                 problems |-> m.problems], chunks, 1, d.text))

FinishMerged(d, document, imports, m) ==
    FinishBindings(d, document, imports, m,
                   Tail(exclusiveParse(document, {"#"}, 0, TRUE)))

\* the merge loop over this.imports
FinishImports(d, document, s1) ==
    FinishMerged(d, document, s1.imports,
                 MergeLoop([namespace |-> d.namespace, problems |-> s1.problems,
                            log |-> <<>>], s1.imports, 1))

\* _parse from the forEach over the awaited imports to its end, on the
\* document as it is then; document is the blanked text of the pass
Finish(d, results, document) ==
    FinishImports(d, document,
                  PushImports([imports |-> d.imports, problems |-> d.problems],
                              results, 1))

(***************************************************************************)
(* A nested document, parsed to the end with its imports finishing in the  *)
(* order of their statements                                               *)
(***************************************************************************)
DeepProblems(statements) ==
    [k \in 1..Len(statements) |->
        Problem("import too deep",
                <<statements[k][2][1] - 1, statements[k][2][2]>>, "DeepImport")]

\* processImport from its first await to its end
Imported(h, c) ==
    IF ~h.fetch
    THEN [imp |-> h.imp, pushed |-> Pushed(h.imp), rejected |-> FALSE,
          updates |-> 0, docs |-> {}]
    ELSE IF UpdateRejects(h.imp.hash)
    THEN [imp |-> h.imp, pushed |-> <<>>, rejected |-> TRUE,
          updates |-> 1, docs |-> {}]
    ELSE [imp |-> c.imp,
          pushed |-> (IF c.failed THEN <<>> ELSE c.uam) \o Pushed(c.imp),
          rejected |-> FALSE, updates |-> 1, docs |-> c.docs]

ImportFetched(h, importDepth, ignoreAM, ignoreUAM, inner) ==
    Imported(h, Classify(h.imp, importDepth, ignoreAM, ignoreUAM, inner))

\* processImport to its end; rejected when the fetch rejects
ImportFull(statement, importDepth, ignoreAM, ignoreUAM, inner) ==
    ImportFetched(ImportHead(statement), importDepth, ignoreAM, ignoreUAM, inner)

\* acc is [imports, pushed, rejected, updates, docs]
RECURSIVE ImportsFrom(_, _, _, _, _)
RECURSIVE ImportNext(_, _, _, _, _, _)
ImportNext(statements, i, d, acc, inner, r) ==
    ImportsFrom(statements, i + 1, d,
                [imports  |-> Append(acc.imports, r.imp),
                 pushed   |-> acc.pushed \o r.pushed,
                 rejected |-> acc.rejected \/ r.rejected,
                 updates  |-> acc.updates + r.updates,
                 docs     |-> acc.docs \cup r.docs],
                inner)

ImportsFrom(statements, i, d, acc, inner) ==
    IF i > Len(statements) THEN acc
    ELSE ImportNext(statements, i, d, acc, inner,
                    ImportFull(statements[i], d.importDepth, d.ignoreAM, d.ignoreUAM,
                               inner))

\* the result of a parse that ran to its end
Parsed(d, docs, statements, deep, updates) ==
    [d    |-> d,
     docs |-> docs \cup {Summary(d.importDepth, statements, Len(d.imports), deep,
                                 updates)}]

\* the import stage: every statement processed, or none when the document
\* is too deep
ImportStage(b, inner) ==
    IF CanImport(b.d.importDepth)
    THEN ImportsFrom(b.statements, 1, b.d,
                     [imports |-> <<>>, pushed |-> <<>>, rejected |-> FALSE,
                      updates |-> 0, docs |-> {}], inner)
    ELSE [imports |-> <<>>, pushed |-> DeepProblems(b.statements),
          rejected |-> FALSE, updates |-> 0, docs |-> {}]

ParseImported(b, rs) ==
    IF rs.rejected
    THEN [d    |-> Catch([b.d EXCEPT !.problems = @ \o rs.pushed]),
          docs |-> rs.docs \cup {Summary(b.d.importDepth, Len(b.statements), 0, 0,
                                         rs.updates)}]
    ELSE Parsed(Finish([b.d EXCEPT !.problems = @ \o rs.pushed], rs.imports,
                       b.document).d,
                rs.docs, Len(b.statements),
                CountCode(rs.pushed, "DeepImport"), rs.updates)

ParseBegun(b, inner) == ParseImported(b, ImportStage(b, inner))

\* new RainDocument(text, store, importDepth) and parse() awaited: the
\* document and the summaries of it and of the documents nested in it
ParseDoc(text, importDepth, inner) ==
    IF IsBlank(text)
    THEN [d |-> NewDoc(text, importDepth), docs |-> {Summary(importDepth, 0, 0, 0, 0)}]
    ELSE ParseBegun(Begin(NewDoc(text, importDepth)), inner)

\* the hashes of the store
HashList ==
    [k \in 1..16 |->
        Join(Hash(<<"0","1","2","3","4","5","6","7","8","9","a","b","c","d","e","f">>[k]))]

\* the hashes whose record holds a document
DotrainList ==
    SelectSeq(HashList, LAMBDA h : OfKind(MetaOf(h).maps, "dotrain") # <<>>)

NestedText(hash) == OfKind(MetaOf(hash).maps, "dotrain")[1].text

\* the documents of the store parsed at one import depth
RECURSIVE NestedFrom(_, _, _, _)
NestedFrom(importDepth, inner, i, acc) ==
    IF i > Len(DotrainList) THEN acc
    ELSE NestedFrom(
           importDepth, inner, i + 1,
           Append(acc,
                  [hash   |-> DotrainList[i],
                   result |-> ParseDoc(NestedText(DotrainList[i]), importDepth,
                                       inner)]))

\* the first import depth at which a document processes no import: no
\* document is nested below it
BottomDepth ==
    CHOOSE d \in 1..(DepthLimit + 2) :
        ~CanImport(d) /\ \A e \in 1..(d - 1) : CanImport(e)

\* the nested documents of import depth 1, worked out from the bottom up
RECURSIVE NestedUp(_, _)
RECURSIVE Upward(_, _)
Upward(importDepth, here) ==
    IF importDepth <= 1 \/ Len(here) = 0 THEN here
    ELSE NestedUp(importDepth - 1, here)

NestedUp(importDepth, inner) == Upward(importDepth, NestedFrom(importDepth, inner, 1, <<>>))

Nested1 == NestedUp(BottomDepth, <<>>)

\* what RainDocument.create(text) gives when awaited, the imports finishing in order
Fresh(text) == ParseDoc(text, 0, Nested1)

(***************************************************************************)
(* The top-level document as a state machine.                              *)
(*   doc     the fields of the RainDocument                                *)
(*   passes  one entry per call of create or updateText, in call order:    *)
(*           the status of its parse pass, the blanked text of the pass    *)
(*           and its processImport tasks                                   *)
(*   orphans the deployer branches of processMeta that are still running   *)
(*           after the classification of their import threw                *)
(*   calls   the number of calls made                                      *)
(*   hist    what an observer records: the merge log of the last finished  *)
(*           pass, the origin of each entry of doc.imports, whether every  *)
(*           call was made after the earlier ones had resolved, the        *)
(*           summaries of the nested documents made, the processImport     *)
(*           calls in the order in which they returned, and the problems   *)
(*           of the last finished pass before the ignore-next-line filter  *)
(***************************************************************************)
\* the number of calls of create and updateText
MaxCalls == 2

\* the texts given to create and updateText
Texts ==
    {<<" ">>,
     <<"@"," ">> \o Hash("2") \o <<" ","@"," ">> \o Hash("9"),
     <<"#","a"," ","1">>,
     <<"@"," ">> \o Hash("5"),
     <<"/","*"," ","c"," ","*","/"," ","@"," ">> \o Hash("4"),
     <<"/","*"," ","c"," ","*","/"," ","@"," ">> \o Hash("2")}

\* the texts given to create when the document is parsed once
TextsNs ==
    {<<"@"," ">> \o Hash("a") \o <<" ","@"," ">> \o Hash("b"),
     <<"@"," ","a"," ">> \o Hash("a") \o <<" ","@"," ","b"," ">> \o Hash("b"),
     <<"@"," ","x"," ">> \o Hash("a") \o <<" ","@"," ","x"," ">> \o Hash("b"),
     <<"#","a"," ","'","b"," ","#","b"," ","'","a"," ","#","c"," ","x">>,
     <<"#","a"," ","'","b"," ","#","b"," ","1"," ","#","c"," ","'","c">>,
     <<"@"," ">> \o Hash("1"),
     <<"@"," ">> \o Hash("a") \o <<" ","@"," ">> \o Hash("d"),
     <<"@"," ">> \o Hash("a") \o <<" ","@"," ">> \o Hash("a"),
     <<"@"," ">> \o Hash("a") \o <<" ","."," ","!"," ","p"," ","!">>,
     <<"@"," ">> \o Hash("f") \o <<" ","."," ","!"," ","'","c"," ","p"," ","p"," ","!">>,
     <<"@"," ">> \o Hash("f") \o <<" ","."," ","!"," ","c"," ","1"," ","p"," ","!">>,
     <<"@"," ">> \o Hash("c") \o <<" ","'","c"," ","e">>,
     <<"@"," ">> \o Hash("c") \o <<" ","'","c"," ","d">>,
     <<"@"," ">> \o Hash("c") \o <<" ","'","c"," ","e"," ","'","d"," ","e">>,
     <<"@"," ">> \o Hash("e") \o <<" ","'","m"," ","k">>,
     <<"@"," ">> \o Hash("e") \o <<" ","'","m"," ","n">>,
     <<"@"," ">> \o Hash("5"),
     <<"@"," ">> \o Hash("4"),
     <<"@"," ">> \o Hash("3") \o <<" ","@"," ">> \o Hash("9"),
     <<"@"," ">> \o Hash("c") \o <<" ","@"," ","x"," ">> \o Hash("a") \o
        <<" ","#","c"," ","1"," ","#","x"," ","2"," ","#","a"," ","3"," ","#","a"," ","4"," ","#","1"," ","5"," ","#","b"," ","6">>,
     <<"@"," ">> \o Hash("6"),
     <<"@"," ","x"," ">> \o Hash("6"),
     <<"@"," ">> \o Hash("a") \o <<" ","@"," ">> \o Hash("c") \o <<" ","#","b"," ","p">>,
     <<"/","*"," ","i","g","n","o","r","e","-","n","e","x","t","-","l","i","n","e"," ","*","/","\n","@"," ">> \o Hash("9") \o <<" ","#","a"," ","!">>,
     <<"/","*"," ","i","g","n","o","r","e","-","a","u","t","h","o","r","i","n","g","-","m","e","t","a"," ","*","/"," ","@"," ">> \o Hash("4"),
     <<"/","*"," ","i","g","n","o","r","e","-","u","n","d","e","f","i","n","e","d","-","a","u","t","h","o","r","i","n","g","-","m","e","t","a"," ","*","/"," ","@"," ">> \o Hash("4"),
     <<"/","*"," ","i","g","n","o","r","e","-","n","e","x","t","-","l","i","n","e"," ","*","/","\n","@"," ">> \o Hash("4"),
     <<"@"," ">> \o Hash("4") \o <<" ","@"," ","x"," ">> \o Hash("e"),
     <<"@"," ">> \o Hash("7"),
     <<"@"," ">> \o Hash("9") \o <<" ","@"," ">> \o Hash("7") \o <<" ","@"," ">> \o Hash("e"),
     <<"@"," ","x"," ">> \o Hash("c") \o <<" ","@"," ">> \o Hash("8"),
     <<"@"," ","x"," ">> \o Hash("e") \o <<" ","@"," ">> \o Hash("8"),
     <<"@"," ">> \o Hash("c") \o <<" ","'","c"," ","x"," ","@"," ">> \o Hash("8"),
     <<"@"," ">> \o Hash("e") \o <<" ","@"," ">> \o Hash("0"),
     <<"@"," ">> \o Hash("e") \o <<" ","@"," ">> \o Hash("c") \o <<" ","'","c"," ","m">>,
     <<"@"," ">> \o Hash("c") \o <<" ","@"," ">> \o Hash("f"),
     <<"@"," ","x"," ">> \o Hash("a") \o <<" ","@"," ","x"," ">> \o Hash("b") \o <<" ","z"," ","!">>,
     <<"@"," ">> \o Hash("e") \o <<" ","n"," ","5"," ","m"," ","7"," ","#","a"," ","1"," ","#","b"," ","x"," ","#","c"," ","!">>,
     <<"@"," ">> \o Hash("e") \o <<" ","n"," ","5"," ","z"," ","1"," ","@"," ">> \o Hash("f") \o <<" ","c"," ","1"," ","p"," ","2"," ","@"," ">> \o Hash("8") \o <<" ","x"," ","1">>,
     <<"@"," ","a"," ">> \o Hash("a") \o <<" ","@"," ">> \o Hash("d"),
     <<"@"," ","a"," ">> \o Hash("a") \o <<" ","@"," ","b"," ">> \o Hash("b") \o <<" ","@"," ","c"," ">> \o Hash("f"),
     <<"#","a"," ","'","b"," ","'","b"," ","'",".","c"," ","'","d",".","e"," ","'","1"," ","#","e"," ","!"," ","'","a">>,
     <<"/","*"," ","@"," ">> \o Hash("4") \o <<" ","#","c"," ","1"," ","*","/"," ","#","a"," ","x"," ","/","*"," ","'","b"," ","*","/">>,
     <<"#","a"," ","x"," ","@"," ">> \o Hash("a") \o <<" ","'","p"," ","q">>,
     <<"/","*"," ","i","g","n","o","r","e","-","n","e","x","t","-","l","i","n","e"," ","*","/","\n","#","a"," ","?"," ","#","a"," ","1","\n","#","b"," ","?"," ","#","b"," ","1">>,
     <<"@"," ">> \o Hash("1") \o <<" ","@"," ">> \o Hash("2") \o <<" ","#","a"," ","'","a">>,
     <<"@"," ">> \o Hash("1") \o <<" ","#","a"," ","'","a"," ","#","b"," ","'","c"," ","#","c"," ","'","b"," ","'","z">>}

NoPass == [status |-> "done", document |-> <<>>, tasks |-> <<>>]

NoHist ==
    [log |-> <<>>, owners |-> <<>>, awaited |-> TRUE, docs |-> {}, returned |-> <<>>,
     raw |-> <<>>]

TaskOf(h) == [stage |-> "fetch", imp |-> h.imp, fetch |-> h.fetch, ignoreAM |-> FALSE]

\* the pass of a parse that reached its import stage
Started(b) ==
    IF CanImport(b.d.importDepth)
    THEN [d |-> b.d,
          pass |-> [status   |-> "running",
                    document |-> b.document,
                    tasks    |-> [k \in 1..Len(b.statements) |->
                                     TaskOf(ImportHead(b.statements[k]))]]]
    ELSE [d |-> [b.d EXCEPT !.problems = @ \o DeepProblems(b.statements)],
          pass |-> [status |-> "running", document |-> b.document, tasks |-> <<>>]]

\* parse() up to its first await, on the document whose text is set
Start(d) ==
    IF IsBlank(d.text) THEN [d |-> Reset(d), pass |-> NoPass] ELSE Started(Begin(d))

Resolved(ps) == \A k \in 1..Len(ps) : ps[k].status # "running"

Created(s) ==
    /\ doc = s.d
    /\ passes = << s.pass >>
    /\ orphans = {}
    /\ calls = 1
    /\ hist = NoHist

\* RainDocument.create(text)
Create(t) == Created(Start(NewDoc(t, 0)))

Init == \E t \in Texts : Create(t)

InitNs == \E t \in TextsNs : Create(t)

Updated(s) ==
    /\ calls < MaxCalls
    /\ calls' = calls + 1
    /\ doc' = s.d
    /\ passes' = Append(passes, s.pass)
    /\ hist' = [hist EXCEPT !.awaited = @ /\ Resolved(passes),
                            !.owners = <<>>]
    /\ UNCHANGED orphans

\* updateText(t)
UpdateText(t) == Updated(Start([doc EXCEPT !.text = t]))

\* a rejection that parse() does not catch
RejectedMutant(p, i, t) ==
    /\ passes' = [passes EXCEPT ![p].tasks[i] = [t EXCEPT !.stage = "rejected"]]
    /\ UNCHANGED <<doc, orphans, calls, hist>>

\* the fetch of task t rejects: parse() catches, once for its pass
Rejected(p, i, t) ==
    /\ passes' = [passes EXCEPT
                    ![p].tasks[i] = [t EXCEPT !.stage = "rejected"],
                    ![p].status = IF @ = "running" THEN "failed" ELSE @]
    /\ doc' = IF passes[p].status = "running" THEN Catch(doc) ELSE doc
    /\ UNCHANGED <<orphans, calls, hist>>

\* processImport of task t awaits the branches of processMeta
Waiting(p, i, t) ==
    /\ passes' = [passes EXCEPT
                    ![p].tasks[i] = [t EXCEPT !.stage = "classify",
                                              !.ignoreAM = doc.ignoreAM]]
    /\ UNCHANGED <<doc, orphans, calls, hist>>

\* processImport of task t ran to its end and returned imp; lost: a deployer
\* branch of it is still running
Returned(p, i, t, imp, lost) ==
    /\ passes' = [passes EXCEPT
                    ![p].tasks[i] = [t EXCEPT !.stage = "done", !.imp = imp]]
    /\ doc' = [doc EXCEPT !.problems = @ \o Pushed(imp)]
    /\ orphans' = IF lost
                  THEN orphans \cup {[pass |-> p, index |-> i, imp |-> imp]}
                  ELSE orphans
    /\ hist' = [hist EXCEPT !.returned = Append(@, <<p, i>>)]
    /\ UNCHANGED calls

Settle(p, i, t, c) ==
    IF ~t.fetch THEN Returned(p, i, t, t.imp, FALSE)
    ELSE IF UpdateRejects(t.imp.hash) THEN Rejected(p, i, t)
    ELSE IF c.async /\ ~c.failed THEN Waiting(p, i, t)
    ELSE Returned(p, i, t, c.imp, c.orphan)

\* the fetch of task i of pass p settles, and processImport runs on to its
\* next await or to its end
FetchSettle(p, i) ==
    /\ passes[p].tasks[i].stage = "fetch"
    /\ Settle(p, i, passes[p].tasks[i],
              Classify(passes[p].tasks[i].imp, doc.importDepth, doc.ignoreAM,
                       doc.ignoreUAM, Nested1))

Classified(p, i, t, c) ==
    /\ passes' = [passes EXCEPT ![p].tasks[i] =
                     [t EXCEPT !.stage = "done", !.imp = c.imp]]
    /\ doc' = [doc EXCEPT !.problems = @ \o c.uam \o Pushed(c.imp)]
    /\ hist' = [hist EXCEPT !.docs = @ \cup c.docs,
                            !.returned = Append(@, <<p, i>>)]
    /\ UNCHANGED <<orphans, calls>>

\* the branches of processMeta of task i of pass p finish, and processImport
\* runs to its end
ClassifyDone(p, i) ==
    /\ passes[p].tasks[i].stage = "classify"
    /\ Classified(p, i, passes[p].tasks[i],
                  Classify(passes[p].tasks[i].imp, doc.importDepth,
                           passes[p].tasks[i].ignoreAM, doc.ignoreUAM, Nested1))

Ended(p, ps, f) ==
    /\ doc' = f.d
    /\ passes' = [passes EXCEPT ![p] = NoPass]
    /\ hist' = [hist EXCEPT !.log = f.log,
                            !.raw = f.raw,
                            !.owners = @ \o [k \in 1..Len(ps.tasks) |-> <<p, k>>]]
    /\ UNCHANGED <<orphans, calls>>

\* the results taken in the order in which the calls returned
ReturnsMutant(ps) == [k \in 1..Len(ps.tasks) |-> ps.tasks[hist.returned[k][2]].imp]

\* the results of Promise.all: those of the calls, in the order of the calls
Returns(ps) == [k \in 1..Len(ps.tasks) |-> ps.tasks[k].imp]

\* every processImport of pass p has resolved: _parse runs to its end
Finished(p) ==
    /\ passes[p].status = "running"
    /\ \A k \in 1..Len(passes[p].tasks) : passes[p].tasks[k].stage = "done"
    /\ Ended(p, passes[p], Finish(doc, Returns(passes[p]), passes[p].document))

\* the import with the dispair of the deployer branch stored
WithDispair(imp, dis) == [imp EXCEPT !.sequence = [dispair |-> dis] @@ @]

Stored(o, m) ==
    /\ orphans' = orphans \ {o}
    /\ doc' = [doc EXCEPT
                 !.problems = IF ~m.am /\ ~doc.ignoreUAM
                              THEN Append(@, UAMProblem(o.imp)) ELSE @,
                 !.imports = [k \in 1..Len(@) |->
                                 IF hist.owners[k] = <<o.pass, o.index>>
                                 THEN WithDispair(@[k], DispairOf(m, FALSE))
                                 ELSE @[k]]]
    /\ passes' = IF passes[o.pass].status = "running"
                 THEN [passes EXCEPT ![o.pass].tasks[o.index].imp =
                                         WithDispair(@, DispairOf(m, FALSE))]
                 ELSE passes
    /\ UNCHANGED <<calls, hist>>

\* a deployer branch left behind finishes: it reports the authoring meta it
\* could not find and stores its dispair in the import it belongs to
OrphanFinish(o) ==
    /\ o \in orphans
    /\ Stored(o, OfKind(MetaOf(o.imp.hash).maps, "dispair")[1])

Next ==
    \/ \E t \in Texts : UpdateText(t)
    \/ \E p \in 1..Len(passes) : \E i \in 1..Len(passes[p].tasks) : FetchSettle(p, i)
    \/ \E p \in 1..Len(passes) : \E i \in 1..Len(passes[p].tasks) : ClassifyDone(p, i)
    \/ \E p \in 1..Len(passes) : Finished(p)
    \/ \E o \in orphans : OrphanFinish(o)

\* a document created once and never updated
NextNs ==
    \/ \E p \in 1..Len(passes) : \E i \in 1..Len(passes[p].tasks) : FetchSettle(p, i)
    \/ \E p \in 1..Len(passes) : \E i \in 1..Len(passes[p].tasks) : ClassifyDone(p, i)
    \/ \E p \in 1..Len(passes) : Finished(p)
    \/ \E o \in orphans : OrphanFinish(o)

Spec == Init /\ [][Next]_vars

SpecNs == InitNs /\ [][NextNs]_vars

(***************************************************************************)
(* What the public methods return, and what the claims read off the state  *)
(***************************************************************************)
RECURSIVE getBindingsProblems(_, _)
\* getBindingsProblems(): the problems of the bindings from index i on
getBindingsProblems(d, i) ==
    IF i > Len(d.bindings) THEN <<>>
    ELSE d.bindings[i].problems \o getBindingsProblems(d, i + 1)

\* getAllProblems()
getAllProblems(d) == d.problems \o getBindingsProblems(d, 1)

\* every derived field of the document is as after construction
Emptied(d) ==
    /\ d.bindings = <<>>
    /\ d.imports = <<>>
    /\ d.comments = <<>>
    /\ d.namespace = NsEmpty
    /\ d.authoringMeta = <<>>
    /\ d.authoringMetaPath = ""
    /\ d.bytecode = ""

\* the most recent pass and its status
LastPass == passes[Len(passes)]

\* the node an entry of the merge log merged into, as it was before
TargetBefore(e) ==
    IF e.name = "." THEN e.before
    ELSE IF Has(e.before, e.name) THEN Get(e.before, e.name)
    ELSE NsEmpty

\* the entries of the merge log that went through mergeNamespace with a
\* word set in their contribution, the target holding one already
WordsMeet(e) ==
    /\ e.kind = "merge"
    /\ Has(e.contribution, "Words")
    /\ ~IsLeaf(TargetBefore(e))
    /\ Has(TargetBefore(e), "Words")

SameWords(e) ==
    Get(e.contribution, "Words").Hash = Get(TargetBefore(e), "Words").Hash

\* the hashes of the word sets reachable from a node
RECURSIVE WordsHashes(_)
WordsHashes(ns) ==
    (IF Has(ns, "Words") THEN {Get(ns, "Words").Hash} ELSE {})
    \cup UNION {WordsHashes(Get(ns, k)) : k \in {x \in KeySet(ns) : ~IsLeaf(Get(ns, x))}}

Refused(e) ==
    /\ CountMsg(e.problems, "namespace already contains a set of words") = 1
    /\ e.after = e.before

(***************************************************************************)
(* C1                                                                      *)
(***************************************************************************)
\* C1: whenever the most recent parse pass ran on text without a
\* non-whitespace character, the bindings, imports, comments and problems
\* are empty, the namespace is the empty node, the working word set is
\* empty, runtimeError is unset and getAllProblems() is empty; nothing
\* started by an earlier pass adds to them.  Stated for calls each made
\* after the earlier ones had resolved.
BlankTextLeavesNothing ==
    (hist.awaited /\ IsBlank(doc.text)) =>
        /\ Emptied(doc)
        /\ doc.problems = <<>>
        /\ doc.runtimeError = ""
        /\ getAllProblems(doc) = <<>>

BindingEdges(bindings) == EdgesOf(SelectSeq(bindings, NeedsExpression), 1)

\* the binding named n lies on a cycle or reaches one
ReachesCycle(edges, n) ==
    \E k \in 1..Len(edges) :
        OnCycle(edges, edges[k][1]) /\ n \in Ancestors(edges, {edges[k][1]})

\* C3: after a parse pass exactly the bindings that are neither constant nor
\* elided and that lie on a reference cycle, or reference one directly or
\* transitively, carry a "circular dependency" problem, at their name
\* position; no other binding does.
CircularExactlyOnCycles ==
    LastPass.status = "done" =>
        \A k \in 1..Len(doc.bindings) :
            /\ HasCode(doc.bindings[k].problems, "CircularDependency")
               <=> (/\ NeedsExpression(doc.bindings[k])
                    /\ ReachesCycle(BindingEdges(doc.bindings), doc.bindings[k].name))
            /\ \A j \in 1..Len(doc.bindings[k].problems) :
                  doc.bindings[k].problems[j].code = "CircularDependency"
                  => doc.bindings[k].problems[j].position = doc.bindings[k].namePosition

(***************************************************************************)
(* C4                                                                      *)
(***************************************************************************)
\* C4: no document is made at an import depth above 32; a document at depth
\* 32 issues no update of the store, keeps its imports empty, makes no
\* nested document and records one "import too deep" problem for each of
\* its import statements.
DepthBounded ==
    \A s \in hist.docs :
        /\ s.importDepth <= DepthLimit
        /\ s.importDepth = DepthLimit =>
              /\ s.updates = 0
              /\ s.imports = 0
              /\ s.deep = s.statements

\* C4 witness: a document of depth 32 with an import statement was made
DepthReached ==
    \E s \in hist.docs : s.importDepth = DepthLimit /\ s.statements >= 1

(***************************************************************************)
(* C5                                                                      *)
(***************************************************************************)
\* C5: every problem that getAllProblems() returns has a position [s, e]
\* with 0 <= s <= e < the length of the text.
PositionsInText ==
    \A k \in 1..Len(getAllProblems(doc)) :
        /\ 0 <= getAllProblems(doc)[k].position[1]
        /\ getAllProblems(doc)[k].position[1] <= getAllProblems(doc)[k].position[2]
        /\ getAllProblems(doc)[k].position[2] < Len(doc.text)

(***************************************************************************)
(* C6                                                                      *)
(***************************************************************************)
\* C6: an import whose word set has the hash of the word set its target
\* already holds, whether it is a direct import or comes through a nested
\* document, records no duplicate-identifier problem and leaves the
\* namespace as it was after the first.
SameWordsTwiceAccepted ==
    \A k \in 1..Len(hist.log) :
        (WordsMeet(hist.log[k]) /\ SameWords(hist.log[k]))
        => /\ ~HasCode(hist.log[k].problems, "DuplicateIdentifier")
           /\ hist.log[k].after = hist.log[k].before

(***************************************************************************)
(* C7 and C8: the directives of an import, read off the merge log          *)
(***************************************************************************)
\* the steps of the directives of the imports that were merged
Steps == {hist.log[k].reconfigs : k \in 1..Len(hist.log)}

\* the step applies ". !" to a contribution that holds a word set
ElidesWords(st) ==
    /\ st.directive[2] # Undef
    /\ st.directive[1][1] = <<".">>
    /\ st.directive[2][1] = <<"!">>
    /\ Has(st.before, "Words")

\* the words of the word set the step removes
WordsBefore(st) ==
    {Get(st.before, "Words").Element.list[i].word :
        i \in 1..Len(Get(st.before, "Words").Element.list)}

\* the step elides the entry named w
ElidesName(st, w) ==
    /\ st.directive[2] # Undef
    /\ st.directive[2][1] = <<"!">>
    /\ Join(st.directive[1][1]) = w

\* the step renames an entry
Renames(st) ==
    /\ st.directive[2] # Undef
    /\ StartsWithQuote(st.directive[1][1])
    /\ st.directive[2][1] # <<"!">>

\* the step moved some entry to the name w
RenamedTo(st, w) ==
    /\ Renames(st)
    /\ Join(st.directive[2][1]) = w
    /\ st.problems = <<>>
    /\ Has(st.after, w)

\* the step removed the word set and its words, and nothing else
WordsGone(st) ==
    /\ st.problems = <<>>
    /\ KeySet(st.after) = KeySet(st.before) \ ({"Words"} \cup WordsBefore(st))
    /\ \A k \in KeySet(st.after) : Get(st.after, k) = Get(st.before, k)

\* the step reported an undefined identifier and changed nothing
Undefined(st) ==
    /\ Len(st.problems) = 1
    /\ st.problems[1].code = "UndefinedIdentifier"
    /\ st.after = st.before

\* C7 as stated: ". !" removes the word set and every word of it from the
\* contribution and nothing else, and any later directive of the import that
\* elides one of those words by name reports "undefined identifier".
ElidedWordsStayUndefined ==
    \A steps \in Steps : \A j \in 1..Len(steps) :
        ElidesWords(steps[j]) =>
            /\ WordsGone(steps[j])
            /\ \A i \in (j + 1)..Len(steps) : \A w \in WordsBefore(steps[j]) :
                  ElidesName(steps[i], w) => Undefined(steps[i])

\* C7 amended: the same, the later directive reporting "undefined
\* identifier" unless a directive in between renamed another entry to the
\* name of the word.
ElidedWordsUndefinedUnlessRenamed ==
    \A steps \in Steps : \A j \in 1..Len(steps) :
        ElidesWords(steps[j]) =>
            /\ WordsGone(steps[j])
            /\ \A i \in (j + 1)..Len(steps) : \A w \in WordsBefore(steps[j]) :
                  (/\ ElidesName(steps[i], w)
                   /\ \A m \in (j + 1)..(i - 1) : ~RenamedTo(steps[m], w))
                  => Undefined(steps[i])

\* C7 witness: a word set was elided and one of its words elided by name
\* after it, no rename in between
ElidedThenNamed ==
    \E steps \in Steps : \E j \in 1..Len(steps) :
        /\ ElidesWords(steps[j])
        /\ WordsBefore(steps[j]) # {}
        /\ \E i \in (j + 1)..Len(steps) : \E w \in WordsBefore(steps[j]) :
              /\ ElidesName(steps[i], w)
              /\ \A m \in (j + 1)..(i - 1) : ~RenamedTo(steps[m], w)

\* the old and the new name of a rename step
OldName(st) == Join(Tail(st.directive[1][1]))

NewName(st) == Join(st.directive[2][1])

\* the step renames an entry that is there and is no single word
RenamesEntry(st) ==
    /\ Renames(st)
    /\ Has(st.before, OldName(st))
    /\ ~isWord(Get(st.before, OldName(st)))

\* C8: a rename of a non-word entry to an unoccupied name makes the new
\* name resolve to what the old one resolved to, the old name to nothing and
\* leaves every other name as it was; a rename to an occupied name reports
\* one duplicate-identifier problem and leaves the namespace as it was.
RenameMovesOrRefuses ==
    \A steps \in Steps : \A j \in 1..Len(steps) :
        RenamesEntry(steps[j]) =>
            IF ~Has(steps[j].before, NewName(steps[j]))
            THEN /\ steps[j].problems = <<>>
                 /\ KeySet(steps[j].after)
                       = (KeySet(steps[j].before) \ {OldName(steps[j])})
                            \cup {NewName(steps[j])}
                 /\ Get(steps[j].after, NewName(steps[j]))
                       = Get(steps[j].before, OldName(steps[j]))
                 /\ \A k \in KeySet(steps[j].before) \ {OldName(steps[j])} :
                       Get(steps[j].after, k) = Get(steps[j].before, k)
            ELSE /\ Len(steps[j].problems) = 1
                 /\ steps[j].problems[1].code = "DuplicateIdentifier"
                 /\ steps[j].after = steps[j].before

\* C8 witness: an import renamed one entry to a free name and another to an
\* occupied one
RenamedBothWays ==
    \E steps \in Steps :
        /\ \E j \in 1..Len(steps) :
              RenamesEntry(steps[j]) /\ ~Has(steps[j].before, NewName(steps[j]))
        /\ \E j \in 1..Len(steps) :
              RenamesEntry(steps[j]) /\ Has(steps[j].before, NewName(steps[j]))

(***************************************************************************)
(* C9                                                                      *)
(***************************************************************************)
\* C9: when a step of the pass throws or rejects, parse() resolves with
\* runtimeError set, and from then on the problems hold the runtime-error
\* problem and nothing else, while bindings, imports, comments, namespace and
\* the working word set are empty.  Stated for calls each made after the
\* earlier ones had resolved.
FailureLeavesOnlyRuntimeError ==
    (hist.awaited /\ LastPass.status = "failed") =>
        /\ doc.runtimeError # ""
        /\ doc.problems = << RuntimeErrorProblem >>
        /\ Emptied(doc)

(***************************************************************************)
(* C10                                                                     *)
(***************************************************************************)
\* the problems as a bag: their order follows the order in which the
\* fetches settle
ProblemBag(ps) ==
    [x \in SeqToSet(ps) |-> Cardinality({i \in 1..Len(ps) : ps[i] = x})]

\* the classification of the import threw: a document made afresh has a
\* deployer branch left behind too
Threw(imp) == MetaOf(imp.hash).state = "ok" /\ HasMsg(imp.problems, "corrupt meta")

SameAsFresh(d, f) ==
    /\ d.bindings = f.bindings
    /\ d.imports = f.imports
    /\ d.comments = f.comments
    /\ d.namespace = f.namespace
    /\ ProblemBag(d.problems) = ProblemBag(f.problems)
    /\ d.ignoreAM = f.ignoreAM
    /\ d.ignoreUAM = f.ignoreUAM
    /\ d.authoringMeta = f.authoringMeta
    /\ d.authoringMetaPath = f.authoringMetaPath
    /\ d.bytecode = f.bytecode

\* the pass of the most recent call runs to its end in this step
LastPassEnds ==
    /\ Len(passes') = Len(passes)
    /\ LastPass.status = "running"
    /\ passes'[Len(passes)].status = "done"

\* C10: when updateText is called after the calls before it have resolved,
\* the document it leaves on resolving equals in its bindings, imports,
\* comments, namespace, problems, ignore flags and working word set a
\* document made afresh from the same text with the same store.
UpdateLeavesFreshDocument ==
    [][(/\ hist.awaited
        /\ calls > 1
        /\ LastPassEnds
        /\ \A k \in 1..Len(doc'.imports) : ~Threw(doc'.imports[k]))
       => SameAsFresh(doc', Fresh(doc'.text).d)]_vars

(***************************************************************************)
(* C11                                                                     *)
(***************************************************************************)
\* the pass of create has run to its end
CreateDone == calls = 1 /\ LastPass.status = "done" /\ doc.runtimeError = ""

\* the imports are in the order of their statements in the text
ImportsInTextOrder(d) ==
    \A k \in 1..(Len(d.imports) - 1) :
        d.imports[k].position[2] < d.imports[k + 1].position[1]

\* the merge log has one entry per import, in the order of the imports
MergedInTextOrder(d, log) ==
    /\ Len(log) = Len(d.imports)
    /\ \A k \in 1..Len(log) :
          log[k].index = k - 1 /\ log[k].hashPosition = d.imports[k].hashPosition

\* C11: for a fixed text and store, whatever the order in which the fetches
\* and the classification branches complete, the imports are in the textual
\* order of their statements, the contributions are merged in that order, and
\* the final namespace is the one obtained when they complete in textual
\* order.
NamespaceIndependentOfCompletion ==
    CreateDone =>
        /\ ImportsInTextOrder(doc)
        /\ MergedInTextOrder(doc, hist.log)
        /\ doc.namespace = Fresh(doc.text).d.namespace

\* C11 witness: two imports that meet in the namespace, the second of which
\* returned from processImport before the first, were merged
MergedAfterReversedCompletion ==
    /\ CreateDone
    /\ Len(doc.imports) = 2
    /\ hist.returned = << <<1, 2>>, <<1, 1>> >>
    /\ \E k \in 1..Len(hist.log) : hist.log[k].kind = "merge" /\ hist.log[k].check # "ok"

(***************************************************************************)
(* C12                                                                     *)
(***************************************************************************)
\* C12: for a fixed text and store the problems list is the same, entry by
\* entry, for every order in which the fetches complete: it is the list
\* obtained when they complete in the textual order of the statements.
\* Stated for passes in which no classification threw, so that no branch of
\* processMeta is left running.
ProblemsIndependentOfCompletion ==
    (CreateDone /\ \A k \in 1..Len(doc.imports) : ~Threw(doc.imports[k]))
        => doc.problems = Fresh(doc.text).d.problems

(***************************************************************************)
(* C13                                                                     *)
(***************************************************************************)
\* the imports that processImport has returned
ReturnedImports ==
    SeqToSet(doc.imports)
    \cup UNION {{passes[p].tasks[i].imp :
                    i \in {j \in 1..Len(passes[p].tasks) :
                              passes[p].tasks[j].stage = "done"}} :
                p \in 1..Len(passes)}

\* C13: an import one of whose classification branches failed has, from the
\* moment processImport returns it, an empty sequence and exactly one
\* "corrupt meta" problem, and no branch of it that was still running adds
\* a problem to the document afterwards.
FailedClassificationStaysEmpty ==
    \A imp \in ReturnedImports :
        Threw(imp) =>
            /\ imp.sequence = EmptyObj
            /\ imp.problems = << Problem("corrupt meta", imp.hashPosition, "CorruptMeta") >>
            /\ \A k \in 1..Len(doc.problems) : doc.problems[k] # UAMProblem(imp)

(***************************************************************************)
(* C14                                                                     *)
(***************************************************************************)
\* the record of the hash holds a deployer map whose authoring meta the
\* store settles by neither hash
Unsettled(hash) ==
    /\ MetaOf(hash).state = "ok"
    /\ OfKind(MetaOf(hash).maps, "dispair") # <<>>
    /\ ~OfKind(MetaOf(hash).maps, "dispair")[1].am

\* the imports of unsettled authoring meta that processImport has returned,
\* no branch of their classification failing, while the pass is running
UnsettledReturned ==
    {passes[1].tasks[i].imp :
        i \in {j \in 1..Len(passes[1].tasks) :
                  /\ passes[1].status = "running"
                  /\ passes[1].tasks[j].stage = "done"
                  /\ Unsettled(passes[1].tasks[j].imp.hash)
                  /\ ~Threw(passes[1].tasks[j].imp)}}

\* the entries of the merge log of such imports
UnsettledMerged ==
    {k \in 1..Len(hist.log) :
        /\ Unsettled(hist.log[k].hash)
        /\ ~Threw(doc.imports[k])
        /\ doc.imports[k].problems = <<>>}

UnsettledIgnored ==
    /\ UnsettledReturned # {}
    /\ doc.ignoreUAM
    /\ doc.problems = <<>>

\* such an import was merged
UnsettledContributed ==
    \E k \in UnsettledMerged :
        hist.log[k].check = "ok" /\ Has(doc.namespace, "Words")

(***************************************************************************)
(* C15                                                                     *)
(***************************************************************************)
\* the record of the hash holds a document
Nests(hash) ==
    MetaOf(hash).state = "ok" /\ OfKind(MetaOf(hash).maps, "dotrain") # <<>>

\* the nested document made for the hash by a document of import depth 0
NestedDoc(hash) == NestedOf(Nested1, hash).d

ContainsErrors(imp) ==
    Problem("imported rain document contains top level errors", imp.hashPosition,
            "InvalidRainDocument")

\* the processImport calls of the pass of create that have returned, in the
\* order in which they returned
ReturnedTasks == [k \in 1..Len(hist.returned) |-> passes[1].tasks[hist.returned[k][2]]]

RECURSIVE PushedBy(_, _)
\* what the calls from index k on pushed to the problems of the document
PushedBy(tasks, k) ==
    IF k > Len(tasks) THEN <<>>
    ELSE tasks[k].imp.problems \o tasks[k].imp.reconfigProblems
            \o PushedBy(tasks, k + 1)

\* the pass of create is running and every import returned so far is an
\* import of a document or of a hash without a record
OnlyDocumentsReturned ==
    /\ calls = 1
    /\ passes[1].status = "running"
    /\ \A k \in 1..Len(ReturnedTasks) :
          \/ Nests(ReturnedTasks[k].imp.hash)
          \/ MetaOf(ReturnedTasks[k].imp.hash).state = "absent"

\* C15: an import of a nested document whose parse ended with a problem has
\* exactly one "imported rain document contains top level errors" problem,
\* at its hash position, and one whose nested document ended with none has
\* no problem; the parent's problems hold what its own imports pushed and
\* nothing of the nested documents.
NestedErrorsReportedOnce ==
    OnlyDocumentsReturned =>
        /\ \A k \in 1..Len(ReturnedTasks) :
              Nests(ReturnedTasks[k].imp.hash) =>
                 ReturnedTasks[k].imp.problems
                    = IF NestedDoc(ReturnedTasks[k].imp.hash).problems # <<>>
                      THEN << ContainsErrors(ReturnedTasks[k].imp) >>
                      ELSE <<>>
        /\ doc.problems
              = Started(Begin(NewDoc(doc.text, 0))).d.problems \o PushedBy(ReturnedTasks, 1)

\* C15 witness: an import of a document that ended with a problem of its own
\* and an import of one that ended with none have returned
NestedBothWays ==
    /\ OnlyDocumentsReturned
    /\ \E k \in 1..Len(ReturnedTasks) :
          /\ Nests(ReturnedTasks[k].imp.hash)
          /\ NestedDoc(ReturnedTasks[k].imp.hash).problems # <<>>
          /\ \A q \in SeqToSet(NestedDoc(ReturnedTasks[k].imp.hash).problems) :
                q.code = "UndefinedMeta"
    /\ \E k \in 1..Len(ReturnedTasks) :
          /\ Nests(ReturnedTasks[k].imp.hash)
          /\ NestedDoc(ReturnedTasks[k].imp.hash).problems = <<>>

(***************************************************************************)
(* C16                                                                     *)
(***************************************************************************)
\* the documents of the store parsed at the deepest import depth
Deepest == NestedFrom(DepthLimit, <<>>, 1, <<>>)

\* the deepest documents whose summary was recorded as made
DeepestMade == {k \in 1..Len(Deepest) : Deepest[k].result.docs \subseteq hist.docs}

\* the import statements of a document of the store at the deepest depth
DeepestStatements(hash) == Begin(NewDoc(NestedText(hash), DepthLimit)).statements

\* C16: a document at import depth 32, whose imports would be nested beyond
\* the limit, makes no nested document for them and records for each an
\* "import too deep" problem at the hash position of that import.
TooDeepAtHashPosition ==
    \A k \in DeepestMade :
        /\ \A s \in Deepest[k].result.docs : s.importDepth <= DepthLimit
        /\ \A i \in 1..Len(DeepestStatements(Deepest[k].hash)) :
              \E q \in SeqToSet(Deepest[k].result.d.problems) :
                  /\ q.code = "DeepImport"
                  /\ q.position
                        = ImportHead(DeepestStatements(Deepest[k].hash)[i]).imp.hashPosition

(***************************************************************************)
(* C17                                                                     *)
(***************************************************************************)
\* the entries of the merge log that went through the check, with the
\* contribution and the target that were checked
Checked == {k \in 1..Len(hist.log) : hist.log[k].kind = "merge"}

\* the names present in both subtrees
Common(nns, cns) == KeySet(nns) \cap KeySet(cns)

\* the verdict on two leaves as the claim states it
LeavesAsStated(n, c) ==
    IF \/ isWord(n) /\ isWord(c) /\ n.Hash = c.Hash
       \/ isBinding(n) /\ isBinding(c) /\ n.Hash = c.Hash
       \/ isContextAlias(n) /\ isContextAlias(c) /\ n.Hash = c.Hash
    THEN "ok" ELSE "duplicate identifier"

\* the verdict on two leaves under the name k, the word sets told apart
LeavesOf(k, n, c) ==
    IF k = "Words" /\ n.Hash # c.Hash
    THEN "namespace already contains a set of words"
    ELSE LeavesAsStated(n, c)

RECURSIVE ConflictsAsStated(_, _)
\* the conflicts of the names present in both subtrees, as the claim states
\* them
ConflictsAsStated(nns, cns) ==
    UNION {IF ~IsLeaf(Get(nns, k)) /\ ~IsLeaf(Get(cns, k))
           THEN ConflictsAsStated(Get(nns, k), Get(cns, k))
           ELSE IF IsLeaf(Get(nns, k)) # IsLeaf(Get(cns, k))
           THEN {"cannot import into an occupied namespace"}
           ELSE {LeavesAsStated(Get(nns, k), Get(cns, k))} \ {"ok"} :
           k \in Common(nns, cns)}

RECURSIVE Conflicts(_, _)
\* the same, the word sets told apart
Conflicts(nns, cns) ==
    UNION {IF ~IsLeaf(Get(nns, k)) /\ ~IsLeaf(Get(cns, k))
           THEN Conflicts(Get(nns, k), Get(cns, k))
           ELSE IF IsLeaf(Get(nns, k)) # IsLeaf(Get(cns, k))
           THEN {"cannot import into an occupied namespace"}
           ELSE {LeavesOf(k, Get(nns, k), Get(cns, k))} \ {"ok"} :
           k \in Common(nns, cns)}

Conflicting == {k \in Checked : hist.log[k].check # "ok"}

\* the code of the problem of a conflict, by its reason
CodeOfReason(r) ==
    CASE r = "duplicate identifier" -> "DuplicateIdentifier"
      [] r = "namespace already contains a set of words" -> "MultipleWords"
      [] r = "cannot import into an occupied namespace" -> "InvalidImport"

\* the problem of the conflict of a log entry
ConflictOf(e) == Problem(e.check, e.hashPosition, CodeOfReason(e.check))

RECURSIVE StepProblems(_, _)
\* the problems of the directive steps from index j on
StepProblems(steps, j) ==
    IF j > Len(steps) THEN <<>> ELSE steps[j].problems \o StepProblems(steps, j + 1)

\* C18 as stated: an import whose check gives a conflict leaves the
\* namespace as it was, and its handling in the merge stage records exactly
\* one problem, at the hash position of the import, coded by the reason of
\* the conflict.
ConflictRecordsOneProblem ==
    \A k \in Conflicting :
        /\ hist.log[k].after = hist.log[k].before
        /\ hist.log[k].problems = << ConflictOf(hist.log[k]) >>

\* C18 amended: such an import leaves the namespace as it was and records
\* exactly one problem of the conflict, at its hash position and coded by the
\* reason, after the problems of its directives, which were applied to its
\* contribution before the check.
ConflictRecordsOneProblemAfterDirectives ==
    \A k \in Conflicting :
        /\ hist.log[k].after = hist.log[k].before
        /\ ~hist.log[k].hasDup =>
              hist.log[k].problems
                 = StepProblems(hist.log[k].reconfigs, 1) \o << ConflictOf(hist.log[k]) >>

\* C18 witness: a conflicting import into a named node, one of whose
\* directives gave a problem
ConflictMet ==
    \E k \in Conflicting :
        /\ hist.log[k].name # "."
        /\ StepProblems(hist.log[k].reconfigs, 1) # <<>>

(***************************************************************************)
(* C19                                                                     *)
(***************************************************************************)
\* a rename step that moved an entry to a name that the target of the
\* import holds already, with a leaf that the moved one is not compatible with
RenamedOntoTarget(e, st) ==
    /\ RenamesEntry(st)
    /\ st.problems = <<>>
    /\ ~IsLeaf(TargetBefore(e))
    /\ Has(TargetBefore(e), NewName(st))
    /\ IsLeaf(Get(TargetBefore(e), NewName(st)))
    /\ Has(e.contribution, NewName(st))
    /\ IsLeaf(Get(e.contribution, NewName(st)))
    /\ LeavesOf(NewName(st), Get(e.contribution, NewName(st)),
                Get(TargetBefore(e), NewName(st))) # "ok"

\* the steps of the directives lead from the contribution as built to the
\* contribution that is checked and merged
StepsChained(e) ==
    /\ Len(e.reconfigs) = 0 => e.contribution = e.built
    /\ Len(e.reconfigs) > 0 =>
          /\ e.reconfigs[1].before = e.built
          /\ e.reconfigs[Len(e.reconfigs)].after = e.contribution
          /\ \A j \in 1..(Len(e.reconfigs) - 1) :
                e.reconfigs[j + 1].before = e.reconfigs[j].after

RECURSIVE LeafBindings(_)
\* the bindings that are leaves of a namespace tree
LeafBindings(ns) ==
    UNION {IF IsLeaf(Get(ns, k))
           THEN (IF isBinding(Get(ns, k)) THEN {Get(ns, k).Element} ELSE {})
           ELSE LeafBindings(Get(ns, k)) :
           k \in KeySet(ns)}

\* the bindings of one document: those of its list and of its namespace
BindingsOf(d) == SeqToSet(d.bindings) \cup LeafBindings(d.namespace)

RECURSIVE DocumentsOf(_)
\* a document and the documents nested in its imports
DocumentsOf(d) ==
    {d} \cup UNION {IF "dotrain" \in DOMAIN d.imports[k].sequence
                    THEN DocumentsOf(d.imports[k].sequence.dotrain)
                    ELSE {} :
                    k \in 1..Len(d.imports)}

\* how many of constant, elided and expression the binding has
StatesOf(b) == Cardinality({"constant", "elided", "exp"} \cap DOMAIN b)

\* C20: every binding of the document or of a document nested in it, in a
\* bindings list or a leaf of a namespace, has at most one of constant,
\* elided and expression; expression is on bindings of the document of depth
\* 0 only, not on imported ones, and after a completed pass it is on exactly
\* the document's own bindings that have neither constant nor elided.
BindingHasOneState ==
    /\ \A d \in DocumentsOf(doc) :
          /\ \A b \in BindingsOf(d) : StatesOf(b) <= 1
          /\ d.importDepth > 0 => \A b \in BindingsOf(d) : "exp" \notin DOMAIN b
    /\ \A b \in LeafBindings(doc.namespace) :
          "exp" \in DOMAIN b => b \in SeqToSet(doc.bindings)
    /\ CreateDone =>
          \A k \in 1..Len(doc.bindings) :
              "exp" \in DOMAIN doc.bindings[k] <=> NeedsExpression(doc.bindings[k])

\* C20 witness: after a completed pass the document holds a rebound imported
\* binding that was elided, and own bindings with a constant, an elision and
\* an expression
BindingsOfEveryState ==
    /\ CreateDone
    /\ \E st \in UNION {SeqToSet(s) : s \in Steps} :
          /\ ~Renames(st)
          /\ st.problems = <<>>
          /\ Has(st.before, Join(st.directive[1][1]))
          /\ isBinding(Get(st.before, Join(st.directive[1][1])))
          /\ "elided" \in DOMAIN Get(st.before, Join(st.directive[1][1])).Element
          /\ "constant" \in DOMAIN Get(st.after, Join(st.directive[1][1])).Element
    /\ \E b \in SeqToSet(doc.bindings) : "constant" \in DOMAIN b
    /\ \E b \in SeqToSet(doc.bindings) : "elided" \in DOMAIN b
    /\ \E b \in SeqToSet(doc.bindings) : "exp" \in DOMAIN b
    /\ \E d \in DocumentsOf(doc) : d.importDepth > 0 /\ d.bindings # <<>>

(***************************************************************************)
(* C21: the rebind directive                                               *)
(***************************************************************************)
\* the step applies a rebind directive "<key> <numeral>"
Rebinds(st) ==
    /\ st.directive[2] # Undef
    /\ IsWordPattern(st.directive[1][1])
    /\ IsNumericPattern(st.directive[2][1])

RebindKey(st) == Join(st.directive[1][1])

\* the step left the contribution as it was and reported one problem of code c
RefusedWith(st, c) ==
    /\ st.after = st.before
    /\ Len(st.problems) = 1
    /\ st.problems[1].code = c

\* the step changed the binding at its key, and only that: the constant is
\* the numeral, elided and exp are gone, every other field is as it was
ReboundAt(st) ==
    /\ st.problems = <<>>
    /\ st.after.keys = st.before.keys
    /\ \A k \in KeySet(st.before) \ {RebindKey(st)} :
          Get(st.after, k) = Get(st.before, k)
    /\ Get(st.after, RebindKey(st)).Hash = Get(st.before, RebindKey(st)).Hash
    /\ Get(st.after, RebindKey(st)).ImportIndex
          = Get(st.before, RebindKey(st)).ImportIndex
    /\ "constant" \in DOMAIN Get(st.after, RebindKey(st)).Element
    /\ Get(st.after, RebindKey(st)).Element.constant = Join(st.directive[2][1])
    /\ "elided" \notin DOMAIN Get(st.after, RebindKey(st)).Element
    /\ "exp" \notin DOMAIN Get(st.after, RebindKey(st)).Element
    /\ \A f \in DOMAIN Get(st.before, RebindKey(st)).Element
                   \ {"constant", "elided", "exp"} :
          /\ f \in DOMAIN Get(st.after, RebindKey(st)).Element
          /\ Get(st.after, RebindKey(st)).Element[f]
                = Get(st.before, RebindKey(st)).Element[f]

\* C21: a rebind directive changes the contribution only when its key names
\* a binding leaf, whose constant becomes the numeral and whose elided and
\* expression fields are cleared; on a missing key it reports one undefined
\* identifier, on a single word one single-word-modify, on a context alias
\* or an interior namespace one unexpected rebinding, and leaves the
\* contribution as it was.
RebindOnlyBindings ==
    \A steps \in Steps : \A j \in 1..Len(steps) :
        Rebinds(steps[j]) =>
            IF ~Has(steps[j].before, RebindKey(steps[j]))
            THEN RefusedWith(steps[j], "UndefinedIdentifier")
            ELSE IF ~IsLeaf(Get(steps[j].before, RebindKey(steps[j])))
            THEN RefusedWith(steps[j], "UnexpectedRebinding")
            ELSE IF "word" \in DOMAIN Get(steps[j].before, RebindKey(steps[j])).Element
            THEN RefusedWith(steps[j], "SingleWordModify")
            ELSE IF "column" \in DOMAIN Get(steps[j].before, RebindKey(steps[j])).Element
            THEN RefusedWith(steps[j], "UnexpectedRebinding")
            ELSE ReboundAt(steps[j])

\* the kind of entry a rebind step found at its key
RebindCase(st) ==
    IF ~Has(st.before, RebindKey(st)) THEN "missing"
    ELSE IF ~IsLeaf(Get(st.before, RebindKey(st))) THEN "namespace"
    ELSE IF "word" \in DOMAIN Get(st.before, RebindKey(st)).Element THEN "word"
    ELSE IF "column" \in DOMAIN Get(st.before, RebindKey(st)).Element THEN "alias"
    ELSE IF "elided" \in DOMAIN Get(st.before, RebindKey(st)).Element THEN "elided"
    ELSE "binding"

RebindCases ==
    UNION {{RebindCase(steps[j]) : j \in {i \in 1..Len(steps) : Rebinds(steps[i])}} :
             steps \in Steps}

\* C21 witness: one document whose imports rebound an elided binding, a
\* missing key, a single word, a context alias and an interior namespace
ReboundEveryKind ==
    {"missing", "namespace", "word", "alias", "elided"} \subseteq RebindCases

(***************************************************************************)
(* C22: the working word set                                               *)
(***************************************************************************)
\* the word-set leaves reachable from a node, each with its dotted path
RECURSIVE WordsPaths(_, _)
WordsPaths(ns, path) ==
    (IF Has(ns, "Words") THEN {<<path, Get(ns, "Words")>>} ELSE {})
    \cup UNION {WordsPaths(Get(ns, k), path \o "." \o k) :
                  k \in {x \in KeySet(ns) : ~IsLeaf(Get(ns, x))}}

\* the number of word-set leaves reachable from the root
WordsLeaves(d) == Cardinality(WordsPaths(d.namespace, ""))

NoWorkingWords(d) ==
    /\ d.authoringMeta = <<>>
    /\ d.authoringMetaPath = ""
    /\ d.bytecode = ""

\* the working word set is a reachable word-set leaf, the recorded path its
\* path ("." for the root)
WorkingWordsAt(d) ==
    \E e \in WordsPaths(d.namespace, "") :
        /\ d.authoringMetaPath = (IF e[1] = "" THEN "." ELSE e[1])
        /\ d.authoringMeta = e[2].Element.list

\* the counts the "words must be singleton" problems report
SingletonCounts(d) ==
    {d.problems[k].count :
        k \in {j \in 1..Len(d.problems) : d.problems[j].code = "SingletonWords"}}

\* C22 as stated: with n the number of word-set leaves reachable from the
\* root, n = 0 records one "cannot find any set of words" and selects
\* nothing, n = 1 records neither problem and selects that leaf and its
\* path, n > 1 records one "words must be singleton" that reports n and
\* selects nothing.
WordsCountedByLeaves ==
    CreateDone =>
        /\ WordsLeaves(doc) = 0 =>
              /\ CountMsg(doc.problems, "cannot find any set of words") = 1
              /\ CountCode(doc.problems, "SingletonWords") = 0
              /\ NoWorkingWords(doc)
        /\ WordsLeaves(doc) = 1 =>
              /\ CountMsg(doc.problems, "cannot find any set of words") = 0
              /\ CountCode(doc.problems, "SingletonWords") = 0
              /\ WorkingWordsAt(doc)
        /\ WordsLeaves(doc) > 1 =>
              /\ CountMsg(doc.problems, "cannot find any set of words") = 0
              /\ CountCode(doc.problems, "SingletonWords") = 1
              /\ SingletonCounts(doc) = {WordsLeaves(doc)}
              /\ NoWorkingWords(doc)

\* C22 amended: the same for text that is not blank and with n the number
\* of distinct source hashes of the reachable word-set leaves; for n = 1 the selected leaf is one of the
\* leaves of that hash, and for n > 1 the reported count is at least 2 and
\* at most the number of leaves.
WordsCountedByHashes ==
    (CreateDone /\ ~IsBlank(doc.text)) =>
        /\ Cardinality(WordsHashes(doc.namespace)) = 0 =>
              /\ CountMsg(doc.problems, "cannot find any set of words") = 1
              /\ CountCode(doc.problems, "SingletonWords") = 0
              /\ NoWorkingWords(doc)
        /\ Cardinality(WordsHashes(doc.namespace)) = 1 =>
              /\ CountMsg(doc.problems, "cannot find any set of words") = 0
              /\ CountCode(doc.problems, "SingletonWords") = 0
              /\ WorkingWordsAt(doc)
        /\ Cardinality(WordsHashes(doc.namespace)) > 1 =>
              /\ CountMsg(doc.problems, "cannot find any set of words") = 0
              /\ CountCode(doc.problems, "SingletonWords") = 1
              /\ \A c \in SingletonCounts(doc) : 2 <= c /\ c <= WordsLeaves(doc)
              /\ NoWorkingWords(doc)

\* C22 witness: a finished document with three word-set leaves below its root
ThreeWordSets == CreateDone /\ WordsLeaves(doc) = 3

(***************************************************************************)
(* C23: the depth-0 stage                                                  *)
(***************************************************************************)
\* the imports, of the document or of a document nested in it, that hold a
\* nested document
NestingImports ==
    UNION {{d.imports[k] : k \in {j \in 1..Len(d.imports) :
                                    "dotrain" \in DOMAIN d.imports[j].sequence}} :
             d \in DocumentsOf(doc)}

\* no trace of the selection of the working word set or of the expression
\* parser in the document
NoWordsStage(d) ==
    /\ NoWorkingWords(d)
    /\ ~HasMsg(d.problems, "cannot find any set of words")
    /\ ~HasCode(d.problems, "SingletonWords")
    /\ \A k \in 1..Len(d.bindings) : "exp" \notin DOMAIN d.bindings[k]

\* C23: the working word set is selected at most once per pass and only at
\* import depth 0: a nested document never sets authoringMeta, bytecode or
\* authoringMetaPath, never records "cannot find any set of words" or
\* "words must be singleton" and has no expression parsed, so an import whose
\* nested document has no problem of its own is not reported as containing
\* top level errors.
WordsSelectedAtDepthZeroOnly ==
    /\ CountMsg(doc.problems, "cannot find any set of words")
          + CountCode(doc.problems, "SingletonWords") <= 1
    /\ \A d \in DocumentsOf(doc) : d.importDepth >= 1 => NoWordsStage(d)
    /\ \A imp \in NestingImports :
          /\ imp.sequence.dotrain.importDepth >= 1
          /\ HasCode(imp.problems, "InvalidRainDocument")
                <=> imp.sequence.dotrain.problems # <<>>

\* C23 witness: the finished document imports without a problem a nested
\* document that has no word set and a binding that is neither constant nor
\* elided
NestedWithoutWords ==
    /\ CreateDone
    /\ \E k \in 1..Len(doc.imports) :
          /\ "dotrain" \in DOMAIN doc.imports[k].sequence
          /\ doc.imports[k].problems = <<>>
          /\ WordsLeaves(doc.imports[k].sequence.dotrain) = 0
          /\ \E j \in 1..Len(doc.imports[k].sequence.dotrain.bindings) :
                NeedsExpression(doc.imports[k].sequence.dotrain.bindings[j])

CommentOffsets(d) ==
    UNION {d.comments[k].position[1]..d.comments[k].position[2] :
             k \in 1..Len(d.comments)}

\* the offsets of the text inside an import statement of the document
ImportOffsets(d) ==
    UNION {d.imports[k].position[1]..d.imports[k].position[2] :
             k \in 1..Len(d.imports)}

\* the content of a binding with the text of comments and import statements
\* blanked
Unclaimed(d, b) ==
    [i \in 1..Len(b.content) |->
        IF b.contentPosition[1] + i - 1 \in CommentOffsets(d) \cup ImportOffsets(d)
        THEN " " ELSE b.content[i]]

\* C25: text inside a comment or an import statement is not matched by a
\* later scan: no import statement and no binding starts inside a comment,
\* no binding starts inside an import statement, no unexpected token lies
\* inside a comment, and the dependencies of a binding are the references of
\* its content outside comments and import statements; the positions
\* recorded for comments and binding contents are offsets of the text.
ClaimedTextNotRematched ==
    CreateDone =>
        /\ \A k \in 1..Len(doc.imports) :
              doc.imports[k].position[1] \notin CommentOffsets(doc)
        /\ \A k \in 1..Len(doc.bindings) :
              doc.bindings[k].namePosition[1]
                 \notin CommentOffsets(doc) \cup ImportOffsets(doc)
        /\ \A k \in 1..Len(doc.problems) :
              doc.problems[k].code = "UnexpectedToken"
                 => doc.problems[k].position[1] \notin CommentOffsets(doc)
        /\ \A k \in 1..Len(doc.comments) :
              doc.comments[k].comment
                 = Slice(doc.text, doc.comments[k].position[1],
                         doc.comments[k].position[2] + 1)
        /\ \A k \in 1..Len(doc.bindings) :
              /\ doc.bindings[k].content
                    = Slice(doc.text, doc.bindings[k].contentPosition[1],
                            doc.bindings[k].contentPosition[2] + 1)
              /\ NeedsExpression(doc.bindings[k]) =>
                    doc.bindings[k].dependencies
                       = DepMatches(Unclaimed(doc, doc.bindings[k]), 0)

(***************************************************************************)
(* C26: ignore-next-line                                                   *)
(***************************************************************************)
\* the lines below the lines on which a comment with the marker ends
LinesBelowMarkers(d) ==
    {LineAt(d.text, d.comments[k].position[2]) + 1 :
        k \in {j \in 1..Len(d.comments) :
                 HasMarker(d.comments[j].comment, MarkNextLine)}}

StartsBelowMarker(d, e) == LineAt(d.text, e.position[1]) \in LinesBelowMarkers(d)

\* C26: after a completed pass getAllProblems() holds no problem, of the
\* document or of a binding, that starts on the line below the line on which
\* a comment with the ignore-next-line marker ends, and the problems of the
\* document on every other line are kept, in their order.  Stated for passes
\* in which no classification of an import threw.
NextLineProblemsDropped ==
    (CreateDone /\ \A i \in 1..Len(doc.imports) : ~Threw(doc.imports[i])) =>
        /\ \A k \in 1..Len(getAllProblems(doc)) :
              ~StartsBelowMarker(doc, getAllProblems(doc)[k])
        /\ doc.problems
              = SelectSeq(hist.raw, LAMBDA e : ~StartsBelowMarker(doc, e))

\* the filter reached a document with a problem of its own on the line below
\* a marker and one on another line
NextLineFilterMet ==
    /\ CreateDone
    /\ \E k \in 1..Len(hist.raw) : StartsBelowMarker(doc, hist.raw[k])
    /\ \E k \in 1..Len(hist.raw) :
          /\ ~StartsBelowMarker(doc, hist.raw[k])
          /\ LineAt(doc.text, hist.raw[k].position[1]) > 0

(***************************************************************************)
(* C27: every pass completes                                               *)
(***************************************************************************)
\* the steps a task has before it: its fetch settles, its classification
\* finishes
StepsLeft(t) ==
    IF t.stage = "fetch" THEN 2 ELSE IF t.stage = "classify" THEN 1 ELSE 0

RECURSIVE TasksLeft(_, _)
TasksLeft(tasks, i) ==
    IF i > Len(tasks) THEN 0 ELSE StepsLeft(tasks[i]) + TasksLeft(tasks, i + 1)

RECURSIVE PassesLeft(_, _)
PassesLeft(ps, p) ==
    IF p > Len(ps) THEN 0
    ELSE (IF ps[p].status = "running" THEN 1 ELSE 0)
         + TasksLeft(ps[p].tasks, 1) + PassesLeft(ps, p + 1)

\* the work pending: the steps of the tasks, the end of each running pass and
\* the branches left behind
Pending(ps, os) == PassesLeft(ps, 1) + Cardinality(os)

\* a running pass has a store call that is still to settle, or every task of
\* it has returned and its end can run
CanGoOn(ps) ==
    \A p \in 1..Len(ps) :
        ps[p].status = "running" =>
            \/ \E i \in 1..Len(ps[p].tasks) : ps[p].tasks[i].stage \in {"fetch", "classify"}
            \/ \A i \in 1..Len(ps[p].tasks) : ps[p].tasks[i].stage = "done"

OverlappedAndResolved ==
    /\ calls > 1
    /\ ~hist.awaited
    /\ \A p \in 1..Len(passes) : passes[p].status = "done"
    /\ orphans = {}
    /\ doc.runtimeError = ""
    /\ \A k \in 1..Len(doc.imports) : ~Threw(doc.imports[k])

\* C28: when updateText was called before an earlier call had resolved, then
\* once both have resolved the bindings, imports, comments, namespace and
\* problems of the document are those of one parse of the latest text,
\* nothing of the two passes mixed or duplicated, and every binding content
\* is the text at its position.
OverlapLeavesOneParse ==
    OverlappedAndResolved =>
        /\ doc.bindings = Fresh(doc.text).d.bindings
        /\ doc.imports = Fresh(doc.text).d.imports
        /\ doc.comments = Fresh(doc.text).d.comments
        /\ doc.namespace = Fresh(doc.text).d.namespace
        /\ ProblemBag(doc.problems) = ProblemBag(Fresh(doc.text).d.problems)
        /\ \A k \in 1..Len(doc.bindings) :
              doc.bindings[k].content
                 = Slice(doc.text, doc.bindings[k].contentPosition[1],
                         doc.bindings[k].contentPosition[2] + 1)

(***************************************************************************)
(* C29: payloads of one import that collide                                *)
(***************************************************************************)
\* the entries of the merge log of imports whose payloads collide
Colliding == {k \in 1..Len(hist.log) : hist.log[k].hasDup}

\* the leaves of a node that the import of index i brought
RECURSIVE BroughtBy(_, _)
BroughtBy(ns, i) ==
    UNION {IF IsLeaf(Get(ns, k))
           THEN (IF Get(ns, k).ImportIndex = i THEN {k} ELSE {})
           ELSE BroughtBy(Get(ns, k), i) :
           k \in KeySet(ns)}

\* C29: when the payloads of one import collide with each other, the
\* document records exactly one problem for that import, at its hash
\* position, and no entry of that import is added to the namespace.
CollidingImportAddsNothing ==
    CreateDone =>
        \A k \in Colliding :
            /\ Len(hist.log[k].problems) = 1
            /\ hist.log[k].problems[1].position = hist.log[k].hashPosition
            /\ hist.log[k].after = hist.log[k].before
            /\ BroughtBy(doc.namespace, hist.log[k].index) = {}

(***************************************************************************)
(* C30: the bindings list and the root namespace                           *)
(***************************************************************************)
\* the namespace the merge loop left to the binding statements
MergedNs == IF hist.log = <<>> THEN NsEmpty ELSE hist.log[Len(hist.log)].after

\* the offsets of the statement marks of the text: a "#" outside comments
BindingMarks(d) ==
    {m \in 0..(Len(d.text) - 1) :
        At(d.text, m) = "#" /\ m \notin CommentOffsets(d)}

\* the offset after the name that starts at offset i: the name runs to
\* whitespace, to the next mark or to claimed text
RECURSIVE NameEndAt(_, _)
NameEndAt(d, i) ==
    IF /\ i < Len(d.text)
       /\ At(d.text, i) \notin WS \cup {"#"}
       /\ i \notin CommentOffsets(d) \cup ImportOffsets(d)
    THEN NameEndAt(d, i + 1)
    ELSE i

NameAtMark(d, m) == Slice(d.text, m + 1, NameEndAt(d, m + 1))

\* the statement of mark m is in the bindings list
AcceptedAt(d, m) ==
    \E k \in 1..Len(d.bindings) :
        /\ d.bindings[k].namePosition[1] = m + 1
        /\ d.bindings[k].name = Join(NameAtMark(d, m))

\* the statement of mark m is one the bindings list must hold
AcceptableAt(d, m) ==
    /\ IsBindingName(NameAtMark(d, m))
    /\ ~Has(MergedNs, Join(NameAtMark(d, m)))
    /\ \A n \in BindingMarks(d) :
          (n < m /\ IsBindingName(NameAtMark(d, n)))
             => NameAtMark(d, n) # NameAtMark(d, m)

====
